---- MODULE Spec2Model ----
\* A model of greenlight-cli: the hook dispatcher (hook subcommand), the
\* configuration resolution of connect, the PTY relay (Relay.Run and its
\* tasks), the reconnecting WebSocket client and the transcript streamer's
\* PID file.
\*
\* The specifications share the module; each leaves the variables of the
\* other parts at their initial values:
\*   SpecHook      one invocation of `greenlight hook`, with the marker, the
\*                 sessions file, the PID file and the streamer it starts, or
\*                 the flag/env/config resolution of `greenlight connect`
\*   SpecRelay     one run of the host process around Relay.Run
\*   SpecWS        one WSClient with a producer calling SendText
\*   SpecBin       the same client with a producer calling Send
\*   SpecRun       WSClient.Run from its start, with callers of Close
\*   SpecRunLive   SpecRun with the fairness of the Go scheduler
\*   SpecBackoff   backoff applied to an attempt number and a random draw
\*   SpecInject    the handling of one inbound message in a given mode
\*   SpecStreamer  the hook invocations of one session and their streamers
\*   SpecEnroll    the hook invocations of one session and the enrollment
\*                 marker
\*   SpecBridge    the bridge tailer with a streamer appending to the file
\*   SpecConnect   runConnect from enrollment to the exit of the host
\*   SpecTranscript the streamer in HTTP mode, POSTing transcript lines
\*   SpecSeek      seekToLastLines applied to a transcript and a line count
\*   SpecToBridge  the streamer in bridge mode with the session writing the
\*                 transcript
\*   SpecSessions  hook processes saving relay ids to sessions.json
EXTENDS Integers, Sequences, FiniteSets, TLC

VARIABLES
    \* ---- hook / connect ------------------------------------------------
    cmd,          \* os.Args[1]: "hook" or "connect" ("none" outside SpecHook)
    cfg,          \* process inputs: wsURL set?, flags, environment, config file
    stdin,        \* what is on standard input
    hookPC,       \* position of the process
    deviceID,     \* the resolved device ID
    project,      \* the resolved project
    relayID,      \* local relayID of runHook
    marker,       \* <tmp>/greenlight-enrolled-<relayID> exists
    posts,        \* responses received from POST /request (permission path)
    trace,        \* externally visible effects, in order
    stdout,       \* JSON values written to standard output, in order
    exitCode,     \* -1 while running, else the exit status
    enrolled,     \* results of this process's calls of enrollSession, in order
    otherWrites,  \* times another hook process of the relay id wrote or removed the marker
    \* ---- PTY relay (host process) ---------------------------------------
    host,         \* "running", "stopping" (SIGTSTP sent), "stopped", "exited", "crashed", "killed"
    pcMain,       \* position of the task running Relay.Run and runConnect's tail
    pcStdin,      \* position of the local-stdin copier task
    pcWs,         \* position of the WebSocket read loop (caller of Inject)
    pcOut,        \* position of the PTY output reader task
    termios,      \* termios of the outer terminal
    origTermios,  \* r.origTermios
    rawApplied,   \* the outer terminal was put into raw mode by this process
    handlers,     \* signal.Notify for SIGINT/SIGTERM is in force
    child,        \* "none", "running", "exited"
    master,       \* "open" or "closed" (r.master closed)
    mu,           \* holder of r.mu: "free", "stdin" or "ws"
    wr,           \* per writer task: the master.Write call in progress
    data,         \* stdin copier: the unprocessed rest of the bytes read
    pending,      \* WebSocket loop: the Inject calls still to make for a message
    masterStream, \* bytes the master received since no Write was last in progress
    writeLog,     \* the Write calls finished since then: the bytes each wrote
    doneCh,       \* number of values buffered in the done channel (capacity 1)
    nReads,       \* stdin reads made
    nMsgs,        \* WebSocket messages received
    entryTermios, \* the outer terminal's termios when the process started
    stdinLog,     \* what the stdin copier has done with the bytes of its last read
    nInj,         \* Inject calls that have returned for the last message
    \* ---- WebSocket client: text retry queue ----
    wsMode,       \* WSClient.mode: "rw", "r" or "w"
    conn,         \* WSClient.conn: 0 is nil, k > 0 the k-th connection
    pcRun,        \* position of the task running WSClient.Run
    textQueue,    \* WSClient.textQueue
    batch,        \* drainTextQueue's local queue
    drainIdx,     \* drainTextQueue's loop index (1-based)
    pcSend,       \* position of the task calling SendText
    sendConn,     \* SendText's local conn
    nFrames,      \* frames passed to SendText so far; frame k is the k-th one
    nConns,       \* connections established so far
    lastCut,      \* the last time the queue was cut back: what went, what stayed
    q0,           \* the queue when the connection was last lost
    passed,       \* frames passed to SendText since then while conn was nil
    clean,        \* since the connection was last lost, SendText calls began
                  \* and returned only while conn was nil, and none was in
                  \* progress when it was lost
    drained,      \* frames the drain of the current connection has written
    drainDone,    \* that drain has finished without a write error
    wire,         \* text frames written to the current connection, in order
    \* ---- WebSocket client: binary output ----
    pcBin,        \* position of the task calling Send
    binConn,      \* Send's local conn
    nBins,        \* chunks passed to Send so far; chunk k is the value -k
    binDropped,   \* chunks whose Send call returned without a write
    binWritten,   \* chunks written to a connection
    \* ---- WebSocket client: Run, Close ----
    attempt,      \* Run's attempt counter
    closed,       \* c.done is closed
    cancelled,    \* connectAndRead's ctx is cancelled
    pcClose,      \* position of the task calling Close
    nClose,       \* Close calls that have returned
    wg,           \* c.wg's counter
    since,        \* what ended the last connectAndRead and time.Since(connStart)
    attemptBefore, \* the counter when that connectAndRead returned
    delayAttempt, \* the attempt number given to backoff for the current wait
    wsPanic,      \* the process has panicked in Close
    \* ---- functions applied to drawn arguments ----
    fnIn,         \* the arguments
    fnOut,        \* << >> before the call, then the result as <<result>>
    \* ---- transcript streamer of one session ----
    hk,           \* per hook invocation: its position in maybeStartStreamer
    hkRelay,      \* per hook invocation: its relayID ("" before it starts)
    str,          \* per spawned streamer (pid = index of the spawning hook)
    pidFile,      \* <tmp>/greenlight-stream-<sessionID>.pid
    \* ---- enrollment by the hook invocations of one relay id ----
    ePC,          \* per hook invocation: its position in handlePermissionRequest
    eMarker,      \* <tmp>/greenlight-enrolled-<relayID> exists
    ePosts,       \* number of POSTs to /session/enroll so far
    eRetried,     \* the invocations that took the 401 retry path
    eRejected,    \* some enrollment was not approved
    \* ---- bridge tailer ----
    brFile,       \* bytes appended to the bridge file since the tailer's Seek
    brOff,        \* how many of them the tailer's reader has consumed
    brPartial,    \* tailBridge's partial
    brFrames,     \* the data of the frames passed to SendText, in order
    brPC,         \* position of tailBridge
    brDone,       \* the done channel is closed
    \* ---- runConnect from enrollment on ----
    cPC,          \* position of runConnect
    cLog,         \* what it has done, in order
    cBridge,      \* <tmp>/greenlight-bridge-<relayID> exists
    cTail,        \* state of the goroutine running tailBridge
    cExit,        \* -1 while running, else the exit status
    cRunErr,      \* runErr != nil
    \* ---- transcript streamer in HTTP mode ----
    sPC,          \* position of streamTranscript
    sNext,        \* index of the next complete line of the transcript
    sPosts,       \* the outcome of each POST to /transcript, in order
    \* ---- transcript streamer in bridge mode ----
    tbFile,       \* the bytes of the transcript file
    tbOff,        \* how many of them the streamer's reader has consumed
    tbPartial,    \* streamToBridge's partial
    tbOut,        \* the bytes the streamer has appended to the bridge file
    tbPC,         \* position of streamToBridge
    \* ---- ~/.greenlight/sessions.json ----
    ssFile,       \* its content: valid JSON or not, and the mapping it holds
    ssPC,         \* per hook invocation: its position in saveRelayID
    ssMap         \* per hook invocation: the map it has loaded

hookVars == <<cmd, cfg, stdin, hookPC, deviceID, project, relayID, marker, posts, trace, stdout,
              exitCode, enrolled, otherWrites>>

relayVars == <<host, pcMain, pcStdin, pcWs, pcOut, termios, origTermios, rawApplied,
               handlers, child, master, mu, wr, data, pending, masterStream, writeLog,
               doneCh, nReads, nMsgs, entryTermios, stdinLog, nInj>>

wsVars == <<wsMode, conn, pcRun, textQueue, batch, drainIdx, pcSend, sendConn,
            nFrames, nConns, lastCut, q0, passed, clean, drained, drainDone, wire>>

binVars == <<pcBin, binConn, nBins, binDropped, binWritten>>

runVars == <<attempt, closed, cancelled, pcClose, nClose, wg, since, attemptBefore,
             delayAttempt, wsPanic>>

fnVars == <<fnIn, fnOut>>

strVars == <<hk, hkRelay, str, pidFile>>

enVars == <<ePC, eMarker, ePosts, eRetried, eRejected>>

brVars == <<brFile, brOff, brPartial, brFrames, brPC, brDone>>

conVars == <<cPC, cLog, cBridge, cTail, cExit, cRunErr>>

htVars == <<sPC, sNext, sPosts>>

sbVars == <<tbFile, tbOff, tbPartial, tbOut, tbPC>>

ssVars == <<ssFile, ssPC, ssMap>>

vars == <<hookVars, relayVars, wsVars, binVars, runVars, fnVars, strVars, enVars, brVars, conVars, htVars,
    sbVars, ssVars>>

\* what the actions of one part leave unchanged in the other parts
notHook == <<relayVars, wsVars, binVars, runVars, fnVars, strVars, enVars, brVars, conVars, htVars,
    sbVars, ssVars>>

\* the same without the streamer processes and the PID file
notHookStr == <<relayVars, wsVars, binVars, runVars, fnVars, enVars, brVars, conVars, htVars,
    sbVars, ssVars>>

\* the same without the sessions file
notHookSs == <<relayVars, wsVars, binVars, runVars, fnVars, strVars, enVars, brVars, conVars, htVars,
    sbVars>>

notRelay == <<hookVars, wsVars, binVars, runVars, fnVars, strVars, enVars, brVars, conVars, htVars,
    sbVars, ssVars>>

notWS == <<hookVars, relayVars, fnVars, strVars, enVars, brVars, conVars, htVars,
    sbVars, ssVars>>

notFn == <<hookVars, relayVars, wsVars, binVars, runVars, strVars, enVars, brVars, conVars, htVars,
    sbVars, ssVars>>

notStr == <<hookVars, relayVars, wsVars, binVars, runVars, fnVars, enVars, brVars, conVars, htVars,
    sbVars, ssVars>>

notEn == <<hookVars, relayVars, wsVars, binVars, runVars, fnVars, strVars, brVars, conVars, htVars,
    sbVars, ssVars>>

notBr == <<hookVars, relayVars, wsVars, binVars, runVars, fnVars, strVars, enVars, conVars, htVars,
    sbVars, ssVars>>

notCon == <<hookVars, relayVars, wsVars, binVars, runVars, fnVars, strVars, enVars, brVars, htVars,
    sbVars, ssVars>>

notHt == <<hookVars, relayVars, wsVars, binVars, runVars, fnVars, strVars, enVars, brVars, conVars,
    sbVars, ssVars>>

notSb == <<hookVars, relayVars, wsVars, binVars, runVars, fnVars, strVars, enVars, brVars, conVars,
    htVars, ssVars>>

notSs == <<hookVars, relayVars, wsVars, binVars, runVars, fnVars, strVars, enVars, brVars, conVars,
    htVars, sbVars>>

\* Each subsystem is exercised by a specification of its own; these give the
\* other subsystems' variables their values while they are not running.
Writers == {"stdin", "ws"}

NoWrite == [on |-> FALSE, buf |-> << >>, n |-> 0]

NoCut == [discarded |-> {}, kept |-> << >>, newest |-> 0]

NoSince == [how |-> "none", secs |-> 0]

\* Run is in its loop and nobody calls Close
RunLooping ==
    /\ attempt = 0 /\ closed = FALSE /\ cancelled = FALSE
    /\ pcClose = "off" /\ nClose = 0 /\ wg = 1
    /\ since = NoSince /\ attemptBefore = 0 /\ delayAttempt = 0
    /\ wsPanic = FALSE

WsOff ==
    /\ wsMode = "rw" /\ conn = 0 /\ pcRun = "off" /\ textQueue = << >>
    /\ batch = << >> /\ drainIdx = 0 /\ pcSend = "off" /\ sendConn = 0
    /\ nFrames = 0 /\ nConns = 0 /\ lastCut = NoCut
    /\ q0 = << >> /\ passed = << >> /\ clean = TRUE
    /\ drained = << >> /\ drainDone = FALSE /\ wire = << >>
    /\ pcBin = "off" /\ binConn = 0 /\ nBins = 0
    /\ binDropped = {} /\ binWritten = {}
    /\ attempt = 0 /\ closed = FALSE /\ cancelled = FALSE
    /\ pcClose = "off" /\ nClose = 0 /\ wg = 0
    /\ since = NoSince /\ attemptBefore = 0 /\ delayAttempt = 0
    /\ wsPanic = FALSE

FnOff == fnIn = [fn |-> "none"] /\ fnOut = << >>

MaxHooks == 3   \* hook invocations of one session

HookIds == 1..MaxHooks

NoPidFile == [pid |-> 0, relay |-> ""]

\* no hook has been invoked, no streamer spawned, no PID file
NoStreamer ==
    /\ hk = [h \in HookIds |-> "idle"]
    /\ hkRelay = [h \in HookIds |-> ""]
    /\ str = [h \in HookIds |-> "none"]
    /\ pidFile = NoPidFile

StrOff == NoStreamer

EnOff ==
    /\ ePC = [h \in HookIds |-> "off"] /\ eMarker = FALSE /\ ePosts = 0
    /\ eRetried = {} /\ eRejected = FALSE

BrOff ==
    /\ brFile = << >> /\ brOff = 0 /\ brPartial = << >> /\ brFrames = << >>
    /\ brPC = "off" /\ brDone = FALSE

ConOff ==
    /\ cPC = "off" /\ cLog = << >> /\ cBridge = FALSE /\ cTail = "off"
    /\ cExit = -1 /\ cRunErr = FALSE

HtOff == sPC = "off" /\ sNext = 0 /\ sPosts = << >>

SbOff ==
    /\ tbFile = << >> /\ tbOff = 0 /\ tbPartial = << >> /\ tbOut = << >>
    /\ tbPC = "off"

\* no relay id recorded for any conversation
NoSessions == [c \in HookIds |-> 0]

SsOff ==
    /\ ssFile = [st |-> "absent", m |-> NoSessions]
    /\ ssPC = [h \in HookIds |-> "off"]
    /\ ssMap = [h \in HookIds |-> NoSessions]

\* the parts added to the module after the streamer are not running
RestOff == EnOff /\ BrOff /\ ConOff /\ HtOff /\ SbOff /\ SsOff

HookOff ==
    /\ cmd = "none"
    /\ cfg = [wsURL |-> TRUE, flagDevice |-> "", envDevice |-> "", cfgDevice |-> "",
              flagProject |-> "", envProject |-> "", cfgProject |-> "", envRelay |-> ""]
    /\ stdin = [kind |-> "unreadable", hook_event_name |-> "", session_id |-> "",
                transcript_path |-> ""]
    /\ hookPC = "off" /\ deviceID = "" /\ project = "" /\ relayID = ""
    /\ marker = FALSE /\ posts = << >> /\ trace = << >> /\ stdout = << >>
    /\ exitCode = -1 /\ enrolled = << >> /\ otherWrites = 0

RelayOff ==
    /\ host = "off" /\ pcMain = "off" /\ pcStdin = "off" /\ pcWs = "off" /\ pcOut = "off"
    /\ termios = "cooked" /\ origTermios = "zero" /\ rawApplied = FALSE
    /\ handlers = FALSE /\ child = "none" /\ master = "closed" /\ mu = "free"
    /\ wr = [t \in Writers |-> NoWrite]
    /\ data = << >> /\ pending = << >> /\ masterStream = << >> /\ writeLog = << >>
    /\ doneCh = 0 /\ nReads = 0 /\ nMsgs = 0
    /\ entryTermios = termios
    /\ stdinLog = << >> /\ nInj = 0


-----------------------------------------------------------------------------
\* Generic helpers

Last(s) == s[Len(s)]

\* the last n elements of s (all of s when it is shorter)
LastN(s, n) == IF Len(s) <= n THEN s ELSE SubSeq(s, Len(s) - n + 1, Len(s))

\* the first n elements of s (all of s when it is shorter)
FirstN(s, n) == IF Len(s) <= n THEN s ELSE SubSeq(s, 1, n)

Range(s) == { s[i] : i \in 1..Len(s) }

\* number of occurrences of e in s
RECURSIVE Count(_, _)
Count(s, e) ==
    IF s = << >> THEN 0
    ELSE (IF s[1] = e THEN 1 ELSE 0) + Count(Tail(s), e)

\* index of the first occurrence of e in s (0 when absent)
RECURSIVE FirstIndex(_, _)
FirstIndex(s, e) ==
    IF s = << >> THEN 0
    ELSE IF s[1] = e THEN 1
    ELSE LET k == FirstIndex(Tail(s), e) IN IF k = 0 THEN 0 ELSE k + 1

\* the concatenation of the sequences in ss
RECURSIVE Concat(_)
Concat(ss) == IF ss = << >> THEN << >> ELSE ss[1] \o Concat(Tail(ss))

-----------------------------------------------------------------------------
\* ========================= hook dispatcher ================================

\* Values the inputs are drawn from
DeviceValues  == {"", "dev"}
ProjectValues == {"", "proj"}
RelayValues   == {"", "relay-1"}
SessionValues == {"", "s1"}
PathValues    == {"", "/t.jsonl"}
EventNames    == {"", "SessionStart", "PermissionRequest", "Notification", "SomeUnknownEvent"}

\* Standard input: unreadable, not decodable into hookInput, the JSON value
\* null, or a JSON object with the named fields.
StdinValues ==
    { [kind |-> k, hook_event_name |-> "", session_id |-> "", transcript_path |-> ""]
        : k \in {"unreadable", "malformed", "null"} }
    \cup
    [kind : {"object"}, hook_event_name : EventNames,
     session_id : SessionValues, transcript_path : PathValues]

\* updated_input of the server response, as a set of key/value pairs
EmptyMap      == {}
UpdatedInputs == { EmptyMap, {<<"command", "echo safe">>} }

\* The decoded body of a /request response (serverResp of handlePermissionRequest)
ServerBodies ==
    [behavior : {"allow", "deny", "ask", ""}, message : {"", "no"},
     updated_input : UpdatedInputs, interrupt : BOOLEAN, error : {"", "boom"}]

ZeroBody == [behavior |-> "", message |-> "", updated_input |-> EmptyMap,
             interrupt |-> FALSE, error |-> ""]

\* Outcomes of postJSON(baseURL+"/request", ...): a transport error, or a
\* response with a status and a body that decodes as JSON or does not. A
\* response with an error status may still carry a body that says "allow".
OkStatuses    == {200, 204}
ErrorStatuses == {401, 403, 500}

AllowBody == [behavior |-> "allow", message |-> "", updated_input |-> EmptyMap,
              interrupt |-> FALSE, error |-> ""]

Responses ==
    { [err |-> TRUE, status |-> 0, decodes |-> FALSE, raw |-> "", body |-> ZeroBody] }
    \cup
    { [err |-> FALSE, status |-> s, decodes |-> FALSE, raw |-> "oops", body |-> ZeroBody]
        : s \in OkStatuses \cup ErrorStatuses }
    \cup
    { [err |-> FALSE, status |-> s, decodes |-> TRUE, raw |-> "json", body |-> b]
        : s \in OkStatuses, b \in ServerBodies }
    \cup
    { [err |-> FALSE, status |-> s, decodes |-> TRUE, raw |-> "json", body |-> AllowBody]
        : s \in ErrorStatuses }

\* Outcomes of enrollSession: nil, or an error (request failure, status other
\* than 200, undecodable body, approved:false)
EnrollOutcomes == {"approved", "rejected"}

\* ---- messages ------------------------------------------------------------
MsgNoServer    == "Greenlight server not configured: no relay server URL configured"
MsgNoDevice    == "Greenlight device ID not configured. See https://getgreenlight.github.io/support.html"
MsgNoProject   == "Greenlight project not configured. Run: greenlight connect --project PROJECT_NAME"
MsgReadFailed  == "Failed to read hook input: "
MsgParseFailed == "Failed to parse hook input: "
MsgUnreachable == "Failed to reach Greenlight server (timeout or connection error)"
MsgEnrollRejected == "Greenlight session enrollment was rejected"
MsgBadResponse == "Failed to parse server response: "
MsgDefaultDeny == "Permission denied"

MsgServerError(status, raw) ==
    "Greenlight server error (HTTP " \o ToString(status) \o "): " \o raw

\* ---- output helpers --------------------------------------------------------
Envelope(decision) ==
    [hookSpecificOutput |->
        [hookEventName |-> "PermissionRequest", decision |-> decision]]

denyDecision(message) == [behavior |-> "deny", message |-> message]

denyInterruptDecision(message) ==
    [behavior |-> "deny", message |-> message, interrupt |-> TRUE]

allowDecision == [behavior |-> "allow"]

allowWithUpdatedInputDecision(updatedInput) ==
    [behavior |-> "allow", updatedInput |-> updatedInput]

\* every *AndExit helper: encode the envelope on stdout, then os.Exit(0)
EmitAndExit(decision) ==
    /\ stdout' = Append(stdout, Envelope(decision))
    /\ exitCode' = 0
    /\ hookPC' = "exited"

\* os.Exit(code) with nothing written
SilentExit(code) ==
    /\ stdout' = stdout
    /\ exitCode' = code
    /\ hookPC' = "exited"

\* ---- configuration resolution ---------------------------------------------
FirstNonEmpty(a, b) == IF a # "" THEN a ELSE b

\* runHook: device ID is env > config file
HookDeviceID(c) == FirstNonEmpty(c.envDevice, c.cfgDevice)

\* runHook: project is the environment variable alone
HookProject(c) == c.envProject

\* runConnect: flag > env > config file, for both
ConnectDeviceID(c) == FirstNonEmpty(c.flagDevice, FirstNonEmpty(c.envDevice, c.cfgDevice))
ConnectProject(c)  == FirstNonEmpty(c.flagProject, FirstNonEmpty(c.envProject, c.cfgProject))

\* ---- the event after defaulting, the relay id after fallback ---------------
EventOf(in) == IF in.hook_event_name = "" THEN "PermissionRequest" ELSE in.hook_event_name

RelayIDOf(c, in) == FirstNonEmpty(c.envRelay, in.session_id)

\* ---- the permission decision ------------------------------------------------
\* DecideBody with the behavior looked at before the error field
DecideBodyBehaviorFirst(b) ==
    IF b.behavior = "allow"
    THEN IF Cardinality(b.updated_input) > 0
         THEN allowWithUpdatedInputDecision(b.updated_input)
         ELSE allowDecision
    ELSE IF b.error # "" THEN denyDecision(b.error)
    ELSE LET msg == IF b.message = "" THEN MsgDefaultDeny ELSE b.message
         IN  IF b.interrupt THEN denyInterruptDecision(msg)
             ELSE denyDecision(msg)

\* handlePermissionRequest, from the decoded body to the decision
DecideBody(b) ==
    IF b.error # "" THEN denyDecision(b.error)
    ELSE IF b.behavior = "allow"
         THEN IF Cardinality(b.updated_input) > 0
              THEN allowWithUpdatedInputDecision(b.updated_input)
              ELSE allowDecision
         ELSE LET msg == IF b.message = "" THEN MsgDefaultDeny ELSE b.message
              IN  IF b.interrupt THEN denyInterruptDecision(msg)
                  ELSE denyDecision(msg)

\* DecideResponse without the check of the status
DecideResponseAnyStatus(r) ==
    IF ~r.decodes THEN denyDecision(MsgBadResponse)
    ELSE DecideBody(r.body)

\* handlePermissionRequest, from the final response to the decision
DecideResponse(r) ==
    IF r.status >= 400 THEN denyDecision(MsgServerError(r.status, r.raw))
    ELSE IF ~r.decodes THEN denyDecision(MsgBadResponse)
    ELSE DecideBody(r.body)

\* ---- enrollment with the marker file ---------------------------------------
MaxOtherWrites == 1   \* marker writes and removals by other hook processes

\* this process among the hook invocations of the session, and an earlier
\* one, whose streamer the PID file may name and whose conversation the
\* sessions file may hold
Self    == CHOOSE h \in HookIds : \A g \in HookIds : h <= g
Earlier == Self + 1

\* enrollSessionWithMarker lines 259-262: os.Stat(marker); nil is returned at
\* once when the marker exists (the caller goes on at found), else
\* enrollSession is called (at absent)
MarkerStat(found, absent) == hookPC' = IF marker THEN found ELSE absent

\* the three calls of enrollSessionWithMarker (handleSessionStart line 114,
\* handlePermissionRequest lines 155 and 179): where the process is while its
\* POST to /session/enroll is under way, where it writes the marker, and where
\* it goes on after that
MarkOf    == [ss_enroll |-> "ss_mark", pr_enroll |-> "pr_mark", re_enroll |-> "re_mark"]
AfterMark == [ss_mark |-> "ss_rest", pr_mark |-> "pr_stream", re_mark |-> "pr_post2"]

-----------------------------------------------------------------------------
\* Actions of the hook process

\* runHook lines 32-49: server URL, device ID, project
HookResolveConfig ==
    /\ cmd = "hook" /\ hookPC = "start"
    /\ IF ~cfg.wsURL THEN
            /\ EmitAndExit(denyDecision(MsgNoServer))
            /\ UNCHANGED <<deviceID, project>>
       ELSE IF HookDeviceID(cfg) = "" THEN
            /\ EmitAndExit(denyDecision(MsgNoDevice))
            /\ UNCHANGED <<deviceID, project>>
       ELSE IF HookProject(cfg) = "" THEN
            /\ EmitAndExit(denyDecision(MsgNoProject))
            /\ deviceID' = HookDeviceID(cfg)
            /\ UNCHANGED project
       ELSE /\ hookPC' = "read"
            /\ deviceID' = HookDeviceID(cfg)
            /\ project' = HookProject(cfg)
            /\ UNCHANGED <<stdout, exitCode>>
    /\ UNCHANGED <<cmd, cfg, stdin, relayID, marker, posts, trace>>
    /\ UNCHANGED <<enrolled, otherWrites>>
    /\ UNCHANGED notHook

\* runHook lines 51-74: read and decode stdin, default the event, pick the relay id
HookReadInput ==
    /\ hookPC = "read"
    /\ IF stdin.kind = "unreadable" THEN
            /\ EmitAndExit(denyDecision(MsgReadFailed))
            /\ UNCHANGED relayID
       ELSE IF stdin.kind = "malformed" THEN
            /\ EmitAndExit(denyDecision(MsgParseFailed))
            /\ UNCHANGED relayID
       ELSE /\ relayID' = RelayIDOf(cfg, stdin)
            /\ hookPC' = "dispatch"
            /\ UNCHANGED <<stdout, exitCode>>
    /\ UNCHANGED <<cmd, cfg, stdin, deviceID, project, marker, posts, trace>>
    /\ UNCHANGED <<enrolled, otherWrites>>
    /\ UNCHANGED notHook

\* runHook lines 76-86: the switch on the event name
HookDispatch ==
    /\ hookPC = "dispatch"
    /\ LET ev == EventOf(stdin) IN
       IF ev = "SessionStart" THEN
            /\ hookPC' = "ss_start" /\ UNCHANGED <<stdout, exitCode>>
       ELSE IF ev = "PermissionRequest" THEN
            /\ hookPC' = "pr_pre" /\ UNCHANGED <<stdout, exitCode>>
       ELSE IF ev = "Notification" THEN
            /\ hookPC' = "notify" /\ UNCHANGED <<stdout, exitCode>>
       ELSE SilentExit(0)
    /\ UNCHANGED <<cmd, cfg, stdin, deviceID, project, relayID, marker, posts, trace>>
    /\ UNCHANGED <<enrolled, otherWrites>>
    /\ UNCHANGED notHook

\* handleSessionStart lines 90-114 and enrollSessionWithMarker lines 259-262:
\* env file, exit without a relay id, then the eager enrollment up to its
\* os.Stat of the marker
SessionStartEnroll ==
    /\ hookPC = "ss_start"
    /\ IF relayID = "" THEN SilentExit(0)
       ELSE /\ MarkerStat("ss_rest", "ss_enroll")
            /\ UNCHANGED <<stdout, exitCode>>
    /\ UNCHANGED <<cmd, cfg, stdin, deviceID, project, relayID, marker, posts, trace>>
    /\ UNCHANGED <<enrolled, otherWrites>>
    /\ UNCHANGED notHook

\* enrollSessionWithMarker lines 263-265, the POST to /session/enroll of
\* enrollSession and what the caller does with an error: handleSessionStart
\* exits 0 (lines 114-117), handlePermissionRequest ignores it before the
\* request (line 155) and denies on the 401 path (lines 179-181)
EnrollSessionPost ==
    /\ hookPC \in DOMAIN MarkOf
    /\ \E outcome \in EnrollOutcomes :
        /\ trace' = Append(trace, "POST /session/enroll")
        /\ enrolled' = Append(enrolled, outcome)
        /\ IF outcome = "approved" THEN
                /\ hookPC' = MarkOf[hookPC]
                /\ UNCHANGED <<stdout, exitCode>>
           ELSE IF hookPC = "ss_enroll" THEN SilentExit(0)
           ELSE IF hookPC = "pr_enroll" THEN
                /\ hookPC' = "pr_stream"
                /\ UNCHANGED <<stdout, exitCode>>
           ELSE EmitAndExit(denyDecision(MsgEnrollRejected))
    /\ UNCHANGED <<cmd, cfg, stdin, deviceID, project, relayID, marker, posts, otherWrites>>
    /\ UNCHANGED notHook

\* enrollSessionWithMarker lines 266-267: os.WriteFile(marker), whose error is
\* ignored, so the marker is written or left as it is; nil is returned
EnrollMarkerWrite ==
    /\ hookPC \in DOMAIN AfterMark
    /\ \E written \in BOOLEAN : marker' = IF written THEN TRUE ELSE marker
    /\ hookPC' = AfterMark[hookPC]
    /\ UNCHANGED <<cmd, cfg, stdin, deviceID, project, relayID, posts, trace, stdout, exitCode>>
    /\ UNCHANGED <<enrolled, otherWrites>>
    /\ UNCHANGED notHook

\* where the process is between an os.Stat of the marker and the write that
\* follows it, or between its removal of the marker and the os.Stat of the
\* re-enrollment
MarkerWindow == DOMAIN MarkOf \cup DOMAIN AfterMark \cup {"pr_reenroll"}

\* another hook process of the same relay id writes the marker (line 266,
\* its enrollment was approved) or removes it (line 272, its request returned
\* 401) while this one is in such a window; what the others do to the marker
\* at other times, this process sees as the marker it starts with or not at
\* all
OtherHookMarker(v) ==
    /\ cmd = "hook" /\ relayID # ""
    /\ hookPC \in MarkerWindow
    /\ otherWrites < MaxOtherWrites
    /\ marker # v
    /\ marker' = v
    /\ otherWrites' = otherWrites + 1
    /\ UNCHANGED <<cmd, cfg, stdin, hookPC, deviceID, project, relayID, posts, trace, stdout,
                   exitCode, enrolled>>
    /\ UNCHANGED notHook

\* handleSessionStart lines 120-131: the activity POST runs in a goroutine that
\* os.Exit does not wait for, so by the exit it has been sent or not
SessionStartActivity ==
    /\ hookPC = "ss_rest"
    /\ \E sent \in BOOLEAN :
         trace' = IF sent THEN Append(trace, "POST /activity") ELSE trace
    /\ hookPC' = "ss_save"
    /\ UNCHANGED <<cmd, cfg, stdin, deviceID, project, relayID, marker, posts, stdout, exitCode>>
    /\ UNCHANGED <<enrolled, otherWrites>>
    /\ UNCHANGED notHook

\* handleSessionStart lines 134-137 and saveRelayID lines 101-105: with a
\* session id the process enters saveRelayID, whose steps are SaveLoad,
\* SaveTruncate and SaveWrite
SessionStartSave ==
    /\ hookPC = "ss_save"
    /\ IF stdin.session_id # ""
       THEN /\ hookPC' = "ss_saving"
            /\ ssPC' = [ssPC EXCEPT ![Self] = "start"]
       ELSE /\ hookPC' = "ss_stream"
            /\ UNCHANGED ssPC
    /\ UNCHANGED <<ssFile, ssMap>>
    /\ UNCHANGED <<cmd, cfg, stdin, deviceID, project, relayID, marker, posts, trace, stdout,
                   exitCode>>
    /\ UNCHANGED <<enrolled, otherWrites>>
    /\ UNCHANGED notHookSs

\* saveRelayID has returned, or was not called
SessionStartSaved ==
    \/ hookPC = "ss_stream"
    \/ hookPC = "ss_saving" /\ ssPC[Self] = "done"

\* handleSessionStart lines 139-149 and maybeStartStreamer lines 276-284: with
\* a transcript path the process enters maybeStartStreamer (the session id
\* defaults to the relay id, so it is not empty), whose steps are MaybeCheck,
\* MaybeSpawn, MaybeSpawnFails and MaybeWritePid; without one it exits 0
SessionStartStreamer ==
    /\ SessionStartSaved
    /\ IF stdin.transcript_path # ""
       THEN /\ hookPC' = "ss_streaming"
            /\ hk' = [hk EXCEPT ![Self] = "check"]
            /\ hkRelay' = [hkRelay EXCEPT ![Self] = relayID]
            /\ UNCHANGED <<stdout, exitCode>>
       ELSE /\ SilentExit(0)
            /\ UNCHANGED <<hk, hkRelay>>
    /\ UNCHANGED <<str, pidFile>>
    /\ UNCHANGED <<cmd, cfg, stdin, deviceID, project, relayID, marker, posts, trace>>
    /\ UNCHANGED <<enrolled, otherWrites>>
    /\ UNCHANGED notHookStr

\* handleSessionStart line 149: maybeStartStreamer has returned; os.Exit(0)
SessionStartExit ==
    /\ hookPC = "ss_streaming" /\ hk[Self] = "done"
    /\ SilentExit(0)
    /\ UNCHANGED <<cmd, cfg, stdin, deviceID, project, relayID, marker, posts, trace>>
    /\ UNCHANGED <<enrolled, otherWrites>>
    /\ UNCHANGED notHook

\* handleNotification: a fire-and-forget POST to /request, then exit 0
HandleNotification ==
    /\ hookPC = "notify"
    /\ \E sent \in BOOLEAN :
         trace' = IF sent THEN Append(trace, "POST /request") ELSE trace
    /\ SilentExit(0)
    /\ UNCHANGED <<cmd, cfg, stdin, deviceID, project, relayID, marker, posts>>
    /\ UNCHANGED <<enrolled, otherWrites>>
    /\ UNCHANGED notHook

\* handlePermissionRequest lines 153-155 and enrollSessionWithMarker lines
\* 259-262: with a relay id and a transcript path, the enrollment up to its
\* os.Stat of the marker
PermissionPreEnroll ==
    /\ hookPC = "pr_pre"
    /\ IF relayID # "" /\ stdin.transcript_path # ""
       THEN MarkerStat("pr_stream", "pr_enroll")
       ELSE hookPC' = "pr_payload"
    /\ UNCHANGED <<cmd, cfg, stdin, deviceID, project, relayID, marker, posts, trace, stdout,
                   exitCode>>
    /\ UNCHANGED <<enrolled, otherWrites>>
    /\ UNCHANGED notHook

\* handlePermissionRequest line 156 and maybeStartStreamer lines 276-284:
\* maybeStartStreamer is called with the session id of the input and returns
\* at once when that is empty; else its steps are MaybeCheck, MaybeSpawn,
\* MaybeSpawnFails and MaybeWritePid
PermissionStreamer ==
    /\ hookPC = "pr_stream"
    /\ IF stdin.session_id # ""
       THEN /\ hookPC' = "pr_streaming"
            /\ hk' = [hk EXCEPT ![Self] = "check"]
            /\ hkRelay' = [hkRelay EXCEPT ![Self] = relayID]
       ELSE /\ hookPC' = "pr_payload"
            /\ UNCHANGED <<hk, hkRelay>>
    /\ UNCHANGED <<str, pidFile>>
    /\ UNCHANGED <<cmd, cfg, stdin, deviceID, project, relayID, marker, posts, trace, stdout,
                   exitCode>>
    /\ UNCHANGED <<enrolled, otherWrites>>
    /\ UNCHANGED notHookStr

\* maybeStartStreamer has returned, or was not called
PermissionStreamerDone ==
    \/ hookPC = "pr_payload"
    \/ hookPC = "pr_streaming" /\ hk[Self] = "done"

\* handlePermissionRequest lines 159-167: decode stdin into a map and add the
\* metadata. The JSON value null decodes to a nil map without error, and the
\* assignment payload["device_id"] = ... panics: exit status 2, nothing written.
PermissionBuildPayload ==
    /\ PermissionStreamerDone
    /\ IF stdin.kind = "null" THEN SilentExit(2)
       ELSE /\ hookPC' = "pr_post1"
            /\ UNCHANGED <<stdout, exitCode>>
    /\ UNCHANGED <<cmd, cfg, stdin, deviceID, project, relayID, marker, posts, trace>>
    /\ UNCHANGED <<enrolled, otherWrites>>
    /\ UNCHANGED notHook

\* PostRequest with a transport failure reported by denyAndExit
PostRequestPlainDeny(next) ==
    \E r \in Responses :
        /\ posts' = Append(posts, r)
        /\ trace' = Append(trace, "POST /request")
        /\ IF r.err THEN EmitAndExit(denyDecision(MsgUnreachable))
           ELSE /\ hookPC' = next
                /\ UNCHANGED <<stdout, exitCode>>

\* one postJSON(baseURL+"/request", payload, 595 s) and its error check
PostRequest(next) ==
    \E r \in Responses :
        /\ posts' = Append(posts, r)
        /\ trace' = Append(trace, "POST /request")
        /\ IF r.err THEN EmitAndExit(denyInterruptDecision(MsgUnreachable))
           ELSE /\ hookPC' = next
                /\ UNCHANGED <<stdout, exitCode>>

\* handlePermissionRequest lines 169-174
PermissionPost ==
    /\ hookPC = "pr_post1"
    /\ PostRequest("pr_401")
    /\ UNCHANGED <<cmd, cfg, stdin, deviceID, project, relayID, marker>>
    /\ UNCHANGED <<enrolled, otherWrites>>
    /\ UNCHANGED notHook

\* PermissionCheck401 without clearEnrollmentMarker
PermissionCheck401KeepsMarker ==
    /\ hookPC = "pr_401"
    /\ IF Last(posts).status = 401 /\ relayID # ""
       THEN hookPC' = "pr_reenroll"
       ELSE hookPC' = "pr_decide"
    /\ UNCHANGED <<marker, trace>>
    /\ UNCHANGED <<cmd, cfg, stdin, deviceID, project, relayID, posts, stdout, exitCode>>
    /\ UNCHANGED <<enrolled, otherWrites>>
    /\ UNCHANGED notHook

\* handlePermissionRequest lines 176-178: on 401 with a relay id, remove the marker
PermissionCheck401 ==
    /\ hookPC = "pr_401"
    /\ IF Last(posts).status = 401 /\ relayID # ""
       THEN /\ marker' = FALSE
            /\ trace' = Append(trace, "rm marker")
            /\ hookPC' = "pr_reenroll"
       ELSE /\ hookPC' = "pr_decide"
            /\ UNCHANGED <<marker, trace>>
    /\ UNCHANGED <<cmd, cfg, stdin, deviceID, project, relayID, posts, stdout, exitCode>>
    /\ UNCHANGED <<enrolled, otherWrites>>
    /\ UNCHANGED notHook

\* handlePermissionRequest line 179 and enrollSessionWithMarker lines 259-262:
\* the enrollment of the 401 path up to its os.Stat of the marker, which
\* finds the marker only if another process has written it since line 177
PermissionReEnroll ==
    /\ hookPC = "pr_reenroll"
    /\ MarkerStat("pr_post2", "re_enroll")
    /\ UNCHANGED <<cmd, cfg, stdin, deviceID, project, relayID, marker, posts, trace, stdout,
                   exitCode>>
    /\ UNCHANGED <<enrolled, otherWrites>>
    /\ UNCHANGED notHook

\* handlePermissionRequest lines 182-188: the one retry
PermissionRetry ==
    /\ hookPC = "pr_post2"
    /\ PostRequest("pr_decide")
    /\ UNCHANGED <<cmd, cfg, stdin, deviceID, project, relayID, marker>>
    /\ UNCHANGED <<enrolled, otherWrites>>
    /\ UNCHANGED notHook

\* handlePermissionRequest lines 191-228: status check, decode, decision
PermissionDecide ==
    /\ hookPC = "pr_decide"
    /\ EmitAndExit(DecideResponse(Last(posts)))
    /\ UNCHANGED <<cmd, cfg, stdin, deviceID, project, relayID, marker, posts, trace>>
    /\ UNCHANGED <<enrolled, otherWrites>>
    /\ UNCHANGED notHook

\* runConnect lines 22-59: the server URL, then device ID and project; a
\* missing value ends the process with status 1
ConnectResolveConfig ==
    /\ cmd = "connect" /\ hookPC = "start"
    /\ IF ~cfg.wsURL THEN
            /\ exitCode' = 1 /\ hookPC' = "exited"
            /\ UNCHANGED <<deviceID, project>>
       ELSE IF ConnectDeviceID(cfg) = "" THEN
            /\ exitCode' = 1 /\ hookPC' = "exited"
            /\ UNCHANGED <<deviceID, project>>
       ELSE IF ConnectProject(cfg) = "" THEN
            /\ exitCode' = 1 /\ hookPC' = "exited"
            /\ deviceID' = ConnectDeviceID(cfg)
            /\ UNCHANGED project
       ELSE /\ hookPC' = "connect_enroll"
            /\ deviceID' = ConnectDeviceID(cfg)
            /\ project' = ConnectProject(cfg)
            /\ UNCHANGED exitCode
    /\ UNCHANGED <<cmd, cfg, stdin, relayID, marker, posts, trace, stdout>>
    /\ UNCHANGED <<enrolled, otherWrites>>
    /\ UNCHANGED notHook

\* the relay id a PID file found at the start holds: the one of the
\* environment, which is this process's relay id or not
PidFileRelays == {"relay-1"}

\* the inputs with which the process can come to maybeStartStreamer, and to
\* saveRelayID; with the others the PID file and the sessions file are not
\* touched and start absent
ReachesStreamer ==
    /\ cmd = "hook" /\ stdin.kind = "object" /\ stdin.transcript_path # ""
    /\ EventOf(stdin) \in {"SessionStart", "PermissionRequest"}

ReachesSave ==
    /\ cmd = "hook" /\ stdin.kind = "object" /\ stdin.session_id # ""
    /\ EventOf(stdin) = "SessionStart"

HookInit ==
    /\ cmd \in {"hook", "connect"}
    /\ cfg \in [wsURL : BOOLEAN,
                flagDevice : DeviceValues, envDevice : DeviceValues, cfgDevice : DeviceValues,
                flagProject : ProjectValues, envProject : ProjectValues, cfgProject : ProjectValues,
                envRelay : RelayValues]
    \* hook takes no flags; connect does not read the relay id or stdin
    /\ cmd = "hook" => cfg.flagDevice = "" /\ cfg.flagProject = ""
    /\ cmd = "connect" => cfg.envRelay = ""
    /\ stdin \in StdinValues
    /\ cmd = "connect" => stdin.kind = "unreadable"
    /\ hookPC = "start"
    /\ deviceID = ""
    /\ project = ""
    /\ relayID = ""
    /\ marker \in BOOLEAN
    /\ cmd = "connect" => marker = FALSE
    /\ posts = << >>
    /\ trace = << >>
    /\ stdout = << >>
    /\ exitCode = -1
    /\ enrolled = << >>
    /\ otherWrites = 0
    \* the PID file and the streamer it names, left by an earlier invocation
    /\ pidFile \in {NoPidFile} \cup [pid : {Earlier}, relay : PidFileRelays]
    /\ ~ReachesStreamer => pidFile = NoPidFile
    /\ hk = [h \in HookIds |-> IF h = Earlier /\ pidFile # NoPidFile THEN "done" ELSE "idle"]
    /\ hkRelay = [h \in HookIds |-> IF h = Earlier THEN pidFile.relay ELSE ""]
    /\ str = [h \in HookIds |-> IF h = Earlier /\ pidFile # NoPidFile THEN "running" ELSE "none"]
    \* the sessions file, absent or holding an earlier conversation
    /\ ssFile \in {[st |-> "absent", m |-> NoSessions],
                   [st |-> "json", m |-> [NoSessions EXCEPT ![Earlier] = Earlier]]}
    /\ ~ReachesSave => ssFile.st = "absent"
    /\ ssPC = [h \in HookIds |-> "off"]
    /\ ssMap = [h \in HookIds |-> NoSessions]
    /\ RelayOff
    /\ WsOff
    /\ FnOff
    /\ EnOff /\ BrOff /\ ConOff /\ HtOff /\ SbOff

\* HookNext and SpecHook follow the sessions file, whose steps and those of
\* maybeStartStreamer the hook process takes

-----------------------------------------------------------------------------
\* ============================ PTY relay ====================================

MaxReads   == 2   \* reads of local stdin that return data
MaxMsgs    == 2   \* inbound WebSocket messages

\* bytes
CtrlZ == "^Z"     \* 0x1a
LF    == "LF"     \* '\n'
CR    == "CR"     \* '\r'

\* what one os.Stdin.Read can return
StdinChunks == { <<"a", "b">>, <<"a", CtrlZ, "b">>, <<CtrlZ>> }

\* payloads of inbound WebSocket messages
WsPayloads == { <<"x", "y">>, <<"x", LF>>, <<LF>> }

\* termios values the outer terminal can have at process entry
EntryTermios == {"cooked", "cbreak"}

Signals == {"SIGINT", "SIGTERM", "SIGQUIT"}

\* bytes.IndexByte(d, b): -1 when absent, else the 0-based index
IndexByte(d, b) == FirstIndex(d, b) - 1

\* bytes.ReplaceAll(d, "\n", "\r")
ReplaceNL(d) == [i \in 1..Len(d) |-> IF d[i] = LF THEN CR ELSE d[i]]

\* bytes.TrimRight(d, "\r")
RECURSIVE TrimRightCR(_)
TrimRightCR(d) ==
    IF d = << >> THEN << >>
    ELSE IF d[Len(d)] = CR THEN TrimRightCR(SubSeq(d, 1, Len(d) - 1))
    ELSE d

\* variant: the lone CR is injected only when a trailing CR was stripped
InjectCallsOnlyStripped(payload) ==
    LET d == ReplaceNL(payload)
        text == TrimRightCR(d)
    IN  (IF Len(text) > 0 THEN << text >> ELSE << >>)
        \o (IF Len(text) < Len(d) THEN << <<CR>> >> ELSE << >>)

\* variant: text and CR go out in one write
InjectCallsOneWrite(payload) ==
    LET d == ReplaceNL(payload)
        text == TrimRightCR(d)
    IN  << text \o <<CR>> >>

\* connectAndRead lines 273-297: the Inject calls one message leads to
InjectCalls(payload) ==
    LET d == ReplaceNL(payload)
        text == TrimRightCR(d)
        needsSubmit == Len(text) < Len(d) \/ Len(text) > 0
    IN  (IF Len(text) > 0 THEN << text >> ELSE << >>)
        \o (IF needsSubmit THEN << <<CR>> >> ELSE << >>)

\* the segment the copier writes next: all of data when it holds no Ctrl-Z,
\* else the bytes before the first Ctrl-Z
Segment(d) ==
    IF IndexByte(d, CtrlZ) = -1 THEN d ELSE SubSeq(d, 1, IndexByte(d, CtrlZ))

\* restoreTermios: write r.origTermios to the terminal (the ioctl has nothing
\* to apply when setRaw never read a termios: the same descriptor failed TCGETS)
Restored == IF origTermios = "zero" THEN termios ELSE origTermios

\* the threads of the process run: also while a SIGTSTP that has been sent has
\* not stopped them yet
Running == host \in {"running", "stopping"}

\* The process ends: its goroutines and its memory are gone, the kernel closes
\* its descriptors. The terminal's termios and the child outlive it.
ProcessEnds(how) ==
    /\ host' = how
    /\ pcMain' = "done" /\ pcStdin' = "ended" /\ pcWs' = "ended" /\ pcOut' = "ended"
    /\ origTermios' = "zero" /\ handlers' = FALSE /\ master' = "closed"
    /\ mu' = "free" /\ wr' = [t \in Writers |-> NoWrite]
    /\ data' = << >> /\ pending' = << >> /\ doneCh' = 0
    /\ nReads' = 0 /\ nMsgs' = 0
    /\ masterStream' = << >> /\ writeLog' = << >>
    /\ stdinLog' = << >> /\ nInj' = 0

\* ---- the task running Relay.Run --------------------------------------------

\* setRaw lines 247-257: read the current termios into r.origTermios
MainSetRawGet ==
    /\ Running /\ pcMain = "setRaw_get"
    /\ \E ok \in BOOLEAN :
        IF ok THEN /\ origTermios' = termios
                   /\ pcMain' = "setRaw_set"
        ELSE /\ pcMain' = "cleanup"
             /\ UNCHANGED origTermios
    /\ UNCHANGED <<host, pcStdin, pcWs, pcOut, termios, rawApplied, handlers, child,
                   master, mu, wr, data, pending, masterStream, writeLog, doneCh,
                   nReads, nMsgs>>
    /\ UNCHANGED <<stdinLog, nInj>>
    /\ UNCHANGED <<entryTermios, notRelay>>

\* setRaw lines 259-284: write the raw termios
MainSetRawSet ==
    /\ Running /\ pcMain = "setRaw_set"
    /\ \E ok \in BOOLEAN :
        IF ok THEN /\ termios' = "raw"
                   /\ rawApplied' = TRUE
                   /\ pcMain' = "start"
        ELSE /\ pcMain' = "cleanup"
             /\ UNCHANGED <<termios, rawApplied>>
    /\ UNCHANGED <<host, pcStdin, pcWs, pcOut, origTermios, handlers, child,
                   master, mu, wr, data, pending, masterStream, writeLog, doneCh,
                   nReads, nMsgs>>
    /\ UNCHANGED <<stdinLog, nInj>>
    /\ UNCHANGED <<entryTermios, notRelay>>

\* Run lines 79-97: start the child on the slave
MainStartChild ==
    /\ Running /\ pcMain = "start"
    /\ \E ok \in BOOLEAN :
        IF ok THEN /\ child' = "running"
                   /\ pcMain' = "spawn"
        ELSE /\ pcMain' = "cleanup"
             /\ UNCHANGED child
    /\ UNCHANGED <<host, pcStdin, pcWs, pcOut, termios, origTermios, rawApplied, handlers,
                   master, mu, wr, data, pending, masterStream, writeLog, doneCh,
                   nReads, nMsgs>>
    /\ UNCHANGED <<stdinLog, nInj>>
    /\ UNCHANGED <<entryTermios, notRelay>>

\* Run lines 99-177: start the WebSocket client, install the signal handlers,
\* start the output reader and the stdin copier
MainSpawnTasks ==
    /\ Running /\ pcMain = "spawn"
    /\ pcWs' = "recv"
    /\ handlers' = TRUE
    /\ pcOut' = "read"
    /\ pcStdin' = "read"
    /\ pcMain' = "wait"
    /\ UNCHANGED <<host, termios, origTermios, rawApplied, child,
                   master, mu, wr, data, pending, masterStream, writeLog, doneCh,
                   nReads, nMsgs>>
    /\ UNCHANGED <<stdinLog, nInj>>
    /\ UNCHANGED <<entryTermios, notRelay>>

\* Run lines 180-186: cmd.Wait returns, signal.Stop, close the master
MainWaitChild ==
    /\ Running /\ pcMain = "wait"
    /\ child = "exited"
    /\ handlers' = FALSE
    /\ master' = "closed"
    /\ pcMain' = "drain"
    /\ UNCHANGED <<host, pcStdin, pcWs, pcOut, termios, origTermios, rawApplied, child,
                   mu, wr, data, pending, masterStream, writeLog, doneCh,
                   nReads, nMsgs>>
    /\ UNCHANGED <<stdinLog, nInj>>
    /\ UNCHANGED <<entryTermios, notRelay>>

\* Run line 189: <-done
MainDrain ==
    /\ Running /\ pcMain = "drain"
    /\ doneCh > 0
    /\ doneCh' = doneCh - 1
    /\ pcMain' = "cleanup"
    /\ UNCHANGED <<host, pcStdin, pcWs, pcOut, termios, origTermios, rawApplied, handlers,
                   child, master, mu, wr, data, pending, masterStream, writeLog,
                   nReads, nMsgs>>
    /\ UNCHANGED <<stdinLog, nInj>>
    /\ UNCHANGED <<entryTermios, notRelay>>

\* cleanup (deferred by Run): restoreTermios, close the master and the slave
MainCleanup ==
    /\ Running /\ pcMain = "cleanup"
    /\ termios' = Restored
    /\ master' = "closed"
    /\ pcMain' = "returned"
    /\ UNCHANGED <<host, pcStdin, pcWs, pcOut, origTermios, rawApplied, handlers,
                   child, mu, wr, data, pending, masterStream, writeLog, doneCh,
                   nReads, nMsgs>>
    /\ UNCHANGED <<stdinLog, nInj>>
    /\ UNCHANGED <<entryTermios, notRelay>>

\* runConnect lines 134-146 after Run has returned: the bridge tailer drains,
\* the WebSocket client is closed, the process ends
MainExit ==
    /\ Running /\ pcMain = "returned"
    /\ ProcessEnds("exited")
    /\ UNCHANGED <<termios, rawApplied, child>>
    /\ UNCHANGED <<entryTermios, notRelay>>

\* ---- master.Write, byte by byte ---------------------------------------------

PcOf(t) == IF t = "stdin" THEN pcStdin ELSE pcWs

SetPc(t, v) ==
    IF t = "stdin" THEN pcStdin' = v /\ UNCHANGED pcWs
    ELSE pcWs' = v /\ UNCHANGED pcStdin

\* r.master.Write(buf) in progress: the master takes the next byte
WriteByte(t) ==
    /\ Running /\ PcOf(t) = "write"
    /\ master = "open"
    /\ wr[t].n < Len(wr[t].buf)
    /\ masterStream' = Append(masterStream, wr[t].buf[wr[t].n + 1])
    /\ wr' = [wr EXCEPT ![t].n = @ + 1]
    /\ UNCHANGED <<host, pcMain, pcStdin, pcWs, pcOut, termios, origTermios, rawApplied,
                   handlers, child, master, mu, data, pending, writeLog, doneCh,
                   nReads, nMsgs>>
    /\ UNCHANGED <<stdinLog, nInj>>
    /\ UNCHANGED <<entryTermios, notRelay>>

\* r.master.Write(buf) returns: all bytes written, or the master was closed.
\* The record of the stream starts afresh whenever no Write is in progress.
WriteEnd(t) ==
    /\ Running /\ PcOf(t) = "write"
    /\ wr[t].n = Len(wr[t].buf) \/ master = "closed"
    /\ IF \E u \in Writers \ {t} : wr[u].on
       THEN /\ writeLog' = Append(writeLog, SubSeq(wr[t].buf, 1, wr[t].n))
            /\ UNCHANGED masterStream
       ELSE /\ writeLog' = << >>
            /\ masterStream' = << >>
    /\ wr' = [wr EXCEPT ![t] = NoWrite]
    /\ SetPc(t, "unlock")
    /\ UNCHANGED <<host, pcMain, pcOut, termios, origTermios, rawApplied,
                   handlers, child, master, mu, data, pending, doneCh,
                   nReads, nMsgs>>
    /\ UNCHANGED <<stdinLog, nInj>>
    /\ UNCHANGED <<entryTermios, notRelay>>

\* ---- the stdin copier (Run lines 149-177) ------------------------------------

\* os.Stdin.Read returns n > 0 bytes
StdinRead ==
    /\ Running /\ pcStdin = "read"
    /\ nReads < MaxReads
    /\ \E chunk \in StdinChunks : data' = chunk /\ stdinLog' = << <<"read", chunk>> >>
    /\ nReads' = nReads + 1
    /\ pcStdin' = "scan"
    /\ UNCHANGED <<host, pcMain, pcWs, pcOut, termios, origTermios, rawApplied,
                   handlers, child, master, mu, wr, pending, masterStream, writeLog,
                   doneCh, nMsgs>>
    /\ UNCHANGED nInj
    /\ UNCHANGED <<entryTermios, notRelay>>

\* os.Stdin.Read returns an error (EOF): done <- err, which needs room in
\* the channel, and the task returns
StdinEOF ==
    /\ Running /\ pcStdin = "read"
    /\ doneCh = 0
    /\ doneCh' = 1
    /\ pcStdin' = "ended"
    /\ UNCHANGED <<host, pcMain, pcWs, pcOut, termios, origTermios, rawApplied,
                   handlers, child, master, mu, wr, data, pending, masterStream, writeLog,
                   nReads, nMsgs>>
    /\ UNCHANGED <<stdinLog, nInj>>
    /\ UNCHANGED <<entryTermios, notRelay>>

\* the head of the loop `for len(data) > 0`: find the next Ctrl-Z
StdinScan ==
    /\ Running /\ pcStdin = "scan"
    /\ pcStdin' = IF data = << >> THEN "read"
                  ELSE IF IndexByte(data, CtrlZ) = 0 THEN "suspend"
                  ELSE "lock"
    /\ UNCHANGED <<host, pcMain, pcWs, pcOut, termios, origTermios, rawApplied,
                   handlers, child, master, mu, wr, data, pending, masterStream, writeLog,
                   doneCh, nReads, nMsgs>>
    /\ UNCHANGED <<stdinLog, nInj>>
    /\ UNCHANGED <<entryTermios, notRelay>>

\* r.mu.Lock() and the call of r.master.Write (lines 158-159, 164-165)
StdinLock ==
    /\ Running /\ pcStdin = "lock"
    /\ mu = "free"
    /\ mu' = "stdin"
    /\ wr' = [wr EXCEPT !["stdin"] = [on |-> TRUE, buf |-> Segment(data), n |-> 0]]
    /\ stdinLog' = Append(stdinLog, <<"write", Segment(data)>>)
    /\ pcStdin' = "write"
    /\ UNCHANGED <<host, pcMain, pcWs, pcOut, termios, origTermios, rawApplied,
                   handlers, child, master, data, pending, masterStream, writeLog,
                   doneCh, nReads, nMsgs>>
    /\ UNCHANGED nInj
    /\ UNCHANGED <<entryTermios, notRelay>>

\* r.mu.Unlock() (lines 160-161, 166): break when data held no Ctrl-Z, else suspend
StdinUnlock ==
    /\ Running /\ pcStdin = "unlock"
    /\ mu' = "free"
    /\ IF IndexByte(data, CtrlZ) = -1
       THEN /\ data' = << >>
            /\ pcStdin' = "read"
       ELSE /\ pcStdin' = "suspend"
            /\ UNCHANGED data
    /\ UNCHANGED <<host, pcMain, pcWs, pcOut, termios, origTermios, rawApplied,
                   handlers, child, master, wr, pending, masterStream, writeLog,
                   doneCh, nReads, nMsgs>>
    /\ UNCHANGED <<stdinLog, nInj>>
    /\ UNCHANGED <<entryTermios, notRelay>>

\* suspend line 197: restoreTermios
StdinSuspendRestore ==
    /\ Running /\ pcStdin = "suspend"
    /\ termios' = Restored
    /\ stdinLog' = Append(stdinLog, <<"restore", Restored>>)
    /\ pcStdin' = "stop"
    /\ UNCHANGED <<host, pcMain, pcWs, pcOut, origTermios, rawApplied,
                   handlers, child, master, mu, wr, data, pending, masterStream, writeLog,
                   doneCh, nReads, nMsgs>>
    /\ UNCHANGED nInj
    /\ UNCHANGED <<entryTermios, notRelay>>

\* suspend lines 200-201: SIGTSTP back to default, kill(0, SIGTSTP). The
\* signal is sent to the process group; kill returns, and the copier goes on
\* until the stop reaches its thread (StopTakesHold).
StdinSuspendStop ==
    /\ Running /\ pcStdin = "stop"
    /\ host' = "stopping"
    /\ stdinLog' = Append(stdinLog, <<"stop", termios>>)
    /\ pcStdin' = "resume_get"
    /\ UNCHANGED <<pcMain, pcWs, pcOut, termios, origTermios, rawApplied,
                   handlers, child, master, mu, wr, data, pending, masterStream, writeLog,
                   doneCh, nReads, nMsgs>>
    /\ UNCHANGED nInj
    /\ UNCHANGED <<entryTermios, notRelay>>

\* suspend line 204, setRaw's first ioctl: read the termios into r.origTermios
StdinResumeGet ==
    /\ Running /\ pcStdin = "resume_get"
    /\ \E ok \in BOOLEAN :
        IF ok THEN /\ origTermios' = termios
                   /\ pcStdin' = "resume_set"
                   /\ UNCHANGED <<data, stdinLog>>
        ELSE /\ pcStdin' = "scan"
             /\ data' = SubSeq(data, IndexByte(data, CtrlZ) + 2, Len(data))
             /\ stdinLog' = stdinLog \o << <<"setRaw", "failed">>, <<"syncWinsize", "called">> >>
             /\ UNCHANGED origTermios
    /\ UNCHANGED <<host, pcMain, pcWs, pcOut, termios, rawApplied,
                   handlers, child, master, mu, wr, pending, masterStream, writeLog,
                   doneCh, nReads, nMsgs>>
    /\ UNCHANGED nInj
    /\ UNCHANGED <<entryTermios, notRelay>>

\* suspend lines 204-209 and Run line 169: setRaw's second ioctl, syncWinsize,
\* data = data[idx+1:]
StdinResumeSet ==
    /\ Running /\ pcStdin = "resume_set"
    /\ \E ok \in BOOLEAN :
        /\ IF ok THEN termios' = "raw" ELSE UNCHANGED termios
        /\ stdinLog' = stdinLog \o << <<"setRaw", IF ok THEN "raw" ELSE "failed">>,
                                     <<"syncWinsize", "called">> >>
    /\ data' = SubSeq(data, IndexByte(data, CtrlZ) + 2, Len(data))
    /\ pcStdin' = "scan"
    /\ UNCHANGED <<host, pcMain, pcWs, pcOut, origTermios, rawApplied,
                   handlers, child, master, mu, wr, pending, masterStream, writeLog,
                   doneCh, nReads, nMsgs>>
    /\ UNCHANGED nInj
    /\ UNCHANGED <<entryTermios, notRelay>>

\* ---- the WebSocket read loop and Inject ---------------------------------------

\* connectAndRead lines 261-297: one message arrives
WsReceive ==
    /\ Running /\ pcWs = "recv"
    /\ nMsgs < MaxMsgs
    /\ \E payload \in WsPayloads :
        /\ pending' = InjectCalls(payload)
        /\ pcWs' = IF InjectCalls(payload) = << >> THEN "recv" ELSE "inject"
    /\ nMsgs' = nMsgs + 1
    /\ nInj' = 0
    /\ UNCHANGED <<host, pcMain, pcStdin, pcOut, termios, origTermios, rawApplied,
                   handlers, child, master, mu, wr, data, masterStream, writeLog,
                   doneCh, nReads>>
    /\ UNCHANGED stdinLog
    /\ UNCHANGED <<entryTermios, notRelay>>

\* Inject without r.mu
InjectLockNoMutex ==
    /\ Running /\ pcWs = "inject"
    /\ wr' = [wr EXCEPT !["ws"] = [on |-> TRUE, buf |-> Head(pending), n |-> 0]]
    /\ pcWs' = "write"
    /\ UNCHANGED <<host, pcMain, pcStdin, pcOut, termios, origTermios, rawApplied,
                   handlers, child, master, mu, data, pending, masterStream, writeLog,
                   doneCh, nReads, nMsgs>>
    /\ UNCHANGED <<stdinLog, nInj>>
    /\ UNCHANGED <<entryTermios, notRelay>>

\* Inject lines 215-217: r.mu.Lock() and the call of r.master.Write
InjectLock ==
    /\ Running /\ pcWs = "inject"
    /\ mu = "free"
    /\ mu' = "ws"
    /\ wr' = [wr EXCEPT !["ws"] = [on |-> TRUE, buf |-> Head(pending), n |-> 0]]
    /\ pcWs' = "write"
    /\ UNCHANGED <<host, pcMain, pcStdin, pcOut, termios, origTermios, rawApplied,
                   handlers, child, master, data, pending, masterStream, writeLog,
                   doneCh, nReads, nMsgs>>
    /\ UNCHANGED <<stdinLog, nInj>>
    /\ UNCHANGED <<entryTermios, notRelay>>

\* Inject's deferred r.mu.Unlock(), and the return to the read loop
InjectUnlock ==
    /\ Running /\ pcWs = "unlock"
    /\ mu' = "free"
    /\ pending' = Tail(pending)
    /\ nInj' = nInj + 1
    /\ pcWs' = IF Tail(pending) = << >> THEN "recv" ELSE "inject"
    /\ UNCHANGED <<host, pcMain, pcStdin, pcOut, termios, origTermios, rawApplied,
                   handlers, child, master, wr, data, masterStream, writeLog,
                   doneCh, nReads, nMsgs>>
    /\ UNCHANGED stdinLog
    /\ UNCHANGED <<entryTermios, notRelay>>

\* ---- the output reader (Run lines 131-146) ------------------------------------

\* Run lines 131-132: r.master.Read returns n > 0 bytes of child output
OutRead ==
    /\ Running /\ pcOut = "read"
    /\ master = "open" /\ child # "none"
    /\ pcOut' = "write"
    /\ UNCHANGED <<host, pcMain, pcStdin, pcWs, termios, origTermios, rawApplied,
                   handlers, child, master, mu, wr, data, pending, masterStream, writeLog,
                   doneCh, nReads, nMsgs>>
    /\ UNCHANGED <<stdinLog, nInj>>
    /\ UNCHANGED <<entryTermios, notRelay>>

\* Run lines 133-138: os.Stdout.Write(buf[:n]) and r.ws.Send(buf[:n])
OutWrite ==
    /\ Running /\ pcOut = "write"
    /\ pcOut' = "read"
    /\ UNCHANGED <<host, pcMain, pcStdin, pcWs, termios, origTermios, rawApplied,
                   handlers, child, master, mu, wr, data, pending, masterStream, writeLog,
                   doneCh, nReads, nMsgs>>
    /\ UNCHANGED <<stdinLog, nInj>>
    /\ UNCHANGED <<entryTermios, notRelay>>

\* r.master.Read fails once the child is gone or the master is closed:
\* done <- err, which needs room in the channel, and the task returns
OutEnd ==
    /\ Running /\ pcOut = "read"
    /\ child = "exited" \/ master = "closed"
    /\ doneCh = 0
    /\ doneCh' = 1
    /\ pcOut' = "ended"
    /\ UNCHANGED <<host, pcMain, pcStdin, pcWs, termios, origTermios, rawApplied,
                   handlers, child, master, mu, wr, data, pending, masterStream, writeLog,
                   nReads, nMsgs>>
    /\ UNCHANGED <<stdinLog, nInj>>
    /\ UNCHANGED <<entryTermios, notRelay>>

\* ---- the environment ------------------------------------------------------------

\* the child exits on its own
ChildExit ==
    /\ child = "running"
    /\ host \in {"running", "stopping", "stopped"}
    /\ child' = "exited"
    /\ UNCHANGED <<host, pcMain, pcStdin, pcWs, pcOut, termios, origTermios, rawApplied,
                   handlers, master, mu, wr, data, pending, masterStream, writeLog,
                   doneCh, nReads, nMsgs>>
    /\ UNCHANGED <<stdinLog, nInj>>
    /\ UNCHANGED <<entryTermios, notRelay>>

\* the SIGTSTP sent by suspend (line 201) takes effect: every thread of the
\* process is stopped where it is, the copier at the statement it has reached
\* since kill returned
StopTakesHold ==
    /\ host = "stopping"
    /\ host' = "stopped"
    /\ UNCHANGED <<pcMain, pcStdin, pcWs, pcOut, termios, origTermios, rawApplied,
                   handlers, child, master, mu, wr, data, pending, masterStream, writeLog,
                   doneCh, nReads, nMsgs>>
    /\ UNCHANGED <<stdinLog, nInj>>
    /\ UNCHANGED <<entryTermios, notRelay>>

\* SIGCONT (fg) after a stop
Resume ==
    /\ host = "stopped"
    /\ host' = "running"
    /\ UNCHANGED <<pcMain, pcStdin, pcWs, pcOut, termios, origTermios, rawApplied,
                   handlers, child, master, mu, wr, data, pending, masterStream, writeLog,
                   doneCh, nReads, nMsgs>>
    /\ UNCHANGED <<stdinLog, nInj>>
    /\ UNCHANGED <<entryTermios, notRelay>>

\* A signal arrives. SIGINT and SIGTERM are forwarded to the child while
\* signal.Notify is in force (Run lines 116-124), and the child may exit on
\* them; any other signal, and these two outside that window, has its default
\* action: the process is terminated and no deferred call runs.
Signal(sig) ==
    /\ Running
    /\ IF sig \in {"SIGINT", "SIGTERM"} /\ handlers
       THEN /\ \E dies \in BOOLEAN :
                 child' = IF dies /\ child = "running" THEN "exited" ELSE child
            /\ UNCHANGED <<host, pcMain, pcStdin, pcWs, pcOut, origTermios, handlers,
                           master, mu, wr, data, pending, doneCh, nReads, nMsgs,
                           masterStream, writeLog, stdinLog, nInj>>
       ELSE /\ ProcessEnds("killed")
            /\ UNCHANGED child
    /\ UNCHANGED <<termios, rawApplied>>
    /\ UNCHANGED <<entryTermios, notRelay>>

Active(t) ==
    CASE t = "main"  -> pcMain \notin {"cleanup", "returned", "done"}
      [] t = "stdin" -> pcStdin \notin {"off", "ended"}
      [] t = "ws"    -> pcWs \notin {"off", "ended"}
      [] t = "out"   -> pcOut \notin {"off", "ended"}

\* A panic in task t. Go runs the deferred calls of the panicking goroutine
\* alone and then ends the process with status 2: Run's deferred cleanup runs
\* only when the panic is in the task running Run.
Panic(t) ==
    /\ Running /\ Active(t)
    /\ ProcessEnds("crashed")
    /\ termios' = IF t = "main" THEN Restored ELSE termios
    /\ UNCHANGED <<rawApplied, child>>
    /\ UNCHANGED <<entryTermios, notRelay>>

\* ---- specification ----------------------------------------------------------------

\* New has opened the PTY pair; Run is about to be called
RelayInit ==
    /\ host = "running"
    /\ pcMain = "setRaw_get" /\ pcStdin = "off" /\ pcWs = "off" /\ pcOut = "off"
    /\ termios \in EntryTermios
    /\ origTermios = "zero" /\ rawApplied = FALSE
    /\ handlers = FALSE /\ child = "none" /\ master = "open" /\ mu = "free"
    /\ wr = [t \in Writers |-> NoWrite]
    /\ data = << >> /\ pending = << >> /\ masterStream = << >> /\ writeLog = << >>
    /\ doneCh = 0 /\ nReads = 0 /\ nMsgs = 0
    /\ entryTermios = termios
    /\ stdinLog = << >> /\ nInj = 0
    /\ HookOff
    /\ WsOff
    /\ FnOff
    /\ StrOff
    /\ RestOff

RelayNext ==
    \/ MainSetRawGet
    \/ MainSetRawSet
    \/ MainStartChild
    \/ MainSpawnTasks
    \/ MainWaitChild
    \/ MainDrain
    \/ MainCleanup
    \/ MainExit
    \/ \E t \in Writers : WriteByte(t)
    \/ \E t \in Writers : WriteEnd(t)
    \/ StdinRead
    \/ StdinEOF
    \/ StdinScan
    \/ StdinLock
    \/ StdinUnlock
    \/ StdinSuspendRestore
    \/ StdinSuspendStop
    \/ StdinResumeGet
    \/ StdinResumeSet
    \/ WsReceive
    \/ InjectLock
    \/ InjectUnlock
    \/ OutRead
    \/ OutWrite
    \/ OutEnd
    \/ ChildExit
    \/ StopTakesHold
    \/ Resume
    \/ \E sig \in Signals : Signal(sig)
    \/ \E t \in {"main", "stdin", "ws", "out"} : Panic(t)

SpecRelay == RelayInit /\ [][RelayNext]_vars

-----------------------------------------------------------------------------
\* ============================== backoff ===================================

MaxAttemptArg == 70    \* attempt numbers given to backoff

\* rand.Float64() in thousandths: [0, 1)
RandValues == {0, 250, 500, 750, 999}

\* a / b truncated toward zero, as Go converts a float64 to an integer
Trunc(a, b) == IF a >= 0 THEN a \div b ELSE -((-a) \div b)

\* backoff without the cap on the exponent. time.Second is 10^9 = 2^9 * 5^9,
\* so (1 << n) * time.Second is a multiple of 2^(n+9): from n = 55 on it is 0
\* in 64 bits, and 1 << n itself is 0 from n = 64 on.
BackoffUncapped(n, r) ==
    LET base == IF n >= 55 THEN 0
                ELSE IF n >= 5 THEN 30000
                ELSE (2 ^ n) * 1000
    IN  base + Trunc(base * (r - 500), 2000)

\* backoff lines 303-315, in milliseconds; r is rand.Float64() in thousandths.
\* The exponent is at most 30, so 1 << attempt is at most 2^30 and the product
\* with time.Second (below 2^30) is below 2^60: no overflow in 64 bits.
backoff(n, r) ==
    LET a     == IF n > 30 THEN 30 ELSE n
        shift == 2 ^ a
        base  == IF shift > 30 THEN 30000 ELSE shift * 1000
    IN  base + Trunc(base * (r - 500), 2000)

\* min(2^n, 30) seconds, in milliseconds
NominalMs(n) == IF n >= 5 THEN 30000 ELSE (2 ^ n) * 1000

BackoffInit ==
    /\ fnIn \in [fn : {"backoff"}, attempt : 0..MaxAttemptArg, rand : RandValues]
    /\ fnOut = << >>
    /\ HookOff
    /\ RelayOff
    /\ WsOff
    /\ StrOff
    /\ RestOff

\* delay := backoff(attempt)
BackoffCall ==
    /\ fnOut = << >>
    /\ fnIn.fn = "backoff"
    /\ fnOut' = << backoff(fnIn.attempt, fnIn.rand) >>
    /\ UNCHANGED fnIn
    /\ UNCHANGED notFn

BackoffNext == BackoffCall

SpecBackoff == BackoffInit /\ [][BackoffNext]_vars

-----------------------------------------------------------------------------
\* ================= WebSocket client: the text retry queue ================

textQueueSize == 3                \* 1024 in the source, scaled down
MaxConns      == 2                \* connections established
MaxBins       == 2                \* chunks passed to Send
MaxAttempts   == 2                \* failed dials in a row while c.done is open
MaxCloses     == 2                \* calls of Close
MaxFrames     == textQueueSize + 2 \* frames passed to SendText

WSModes == {"rw", "r", "w"}

\* enqueueText that keeps the oldest frames when the queue is full
EnqueueTextKeepOldest(q, f) ==
    IF Len(q) >= textQueueSize THEN q ELSE Append(q, f)

\* enqueueText lines 166-172: drop the head of a full queue, then append
EnqueueText(q, f) ==
    Append(IF Len(q) >= textQueueSize THEN Tail(q) ELSE q, f)

\* variant: the unsent frames go behind what arrived meanwhile
RequeueBehind(unsent, q) ==
    IF Len(q \o unsent) > textQueueSize
    THEN SubSeq(q \o unsent, 1, textQueueSize)
    ELSE q \o unsent

\* variant: the frame whose write failed is given up
RequeueDropsFailed(unsent, q) ==
    IF Len(Tail(unsent) \o q) > textQueueSize
    THEN SubSeq(Tail(unsent) \o q, 1, textQueueSize)
    ELSE Tail(unsent) \o q

\* drainTextQueue lines 197-200: unsent in front of what arrived meanwhile,
\* cut to the first textQueueSize
Requeue(unsent, q) ==
    IF Len(unsent \o q) > textQueueSize
    THEN SubSeq(unsent \o q, 1, textQueueSize)
    ELSE unsent \o q

\* the record of one cut: before and after are the queue around it
CutOf(before, after) ==
    IF Range(before) \ Range(after) = {} THEN lastCut
    ELSE [discarded |-> Range(before) \ Range(after), kept |-> after,
          newest |-> nFrames]

\* ---- the task calling SendText (lines 135-156) ------------------------------

\* SendText is called with the next frame: mode R returns at once, otherwise
\* c.conn is read under connMu
SendTextStart ==
    /\ pcSend = "idle"
    /\ nFrames < MaxFrames
    /\ nFrames' = nFrames + 1
    /\ passed' = IF conn = 0 THEN Append(passed, nFrames + 1) ELSE passed
    /\ clean' = (clean /\ pcRun # "drain_start")
    /\ IF wsMode = "r"
       THEN UNCHANGED <<pcSend, sendConn>>
       ELSE /\ sendConn' = conn
            /\ pcSend' = "loaded"
    /\ UNCHANGED <<wsMode, conn, pcRun, textQueue, batch, drainIdx, nConns, lastCut,
                   q0, drained, drainDone, wire>>
    /\ UNCHANGED <<binVars, runVars, notWS>>

\* conn == nil: enqueueText and return
SendTextNoConn ==
    /\ pcSend = "loaded" /\ sendConn = 0
    /\ textQueue' = EnqueueText(textQueue, nFrames)
    /\ lastCut' = CutOf(Append(textQueue, nFrames), textQueue')
    /\ pcSend' = "idle"
    /\ UNCHANGED <<wsMode, conn, pcRun, batch, drainIdx, sendConn, nFrames, nConns,
                   q0, passed, clean, drained, drainDone, wire>>
    /\ UNCHANGED <<binVars, runVars, notWS>>

\* conn.Write succeeds: possible only while that connection is still the
\* current one
SendTextWriteOk ==
    /\ pcSend = "loaded" /\ sendConn # 0
    /\ sendConn = conn
    /\ pcSend' = "idle"
    /\ sendConn' = 0
    /\ wire' = Append(wire, [f |-> nFrames, by |-> "SendText", gap |-> FALSE])
    /\ UNCHANGED <<wsMode, conn, pcRun, textQueue, batch, drainIdx, nFrames, nConns,
                   lastCut, q0, passed, clean, drained, drainDone>>
    /\ UNCHANGED <<binVars, runVars, notWS>>

\* conn.Write fails: enqueueText
SendTextWriteFail ==
    /\ pcSend = "loaded" /\ sendConn # 0
    /\ textQueue' = EnqueueText(textQueue, nFrames)
    /\ lastCut' = CutOf(Append(textQueue, nFrames), textQueue')
    /\ pcSend' = "idle"
    /\ sendConn' = 0
    /\ UNCHANGED <<wsMode, conn, pcRun, batch, drainIdx, nFrames, nConns,
                   q0, passed, clean, drained, drainDone, wire>>
    /\ UNCHANGED <<binVars, runVars, notWS>>

\* ---- the task calling Send (lines 111-130) -----------------------------------

\* Send that queues the chunk for retry when there is no connection
SendNoConnQueues ==
    /\ pcBin = "loaded" /\ binConn = 0
    /\ textQueue' = EnqueueText(textQueue, -nBins)
    /\ pcBin' = "idle"
    /\ UNCHANGED <<binConn, nBins, binDropped, binWritten>>
    /\ UNCHANGED <<wsMode, conn, pcRun, batch, drainIdx, pcSend, sendConn, nFrames,
                   nConns, lastCut, q0, passed, clean, drained, drainDone, wire>>
    /\ UNCHANGED <<runVars, notWS>>

\* Send is called with the next chunk of PTY output: mode R returns at once,
\* otherwise c.conn is read under connMu
SendStart ==
    /\ pcBin = "idle"
    /\ nBins < MaxBins
    /\ nBins' = nBins + 1
    /\ IF wsMode = "r"
       THEN /\ binDropped' = binDropped \cup {-(nBins + 1)}
            /\ UNCHANGED <<pcBin, binConn>>
       ELSE /\ binConn' = conn
            /\ pcBin' = "loaded"
            /\ UNCHANGED binDropped
    /\ UNCHANGED binWritten
    /\ UNCHANGED <<wsVars, runVars, notWS>>

\* conn == nil: return
SendNoConn ==
    /\ pcBin = "loaded" /\ binConn = 0
    /\ binDropped' = binDropped \cup {-nBins}
    /\ pcBin' = "idle"
    /\ UNCHANGED <<binConn, nBins, binWritten>>
    /\ UNCHANGED <<wsVars, runVars, notWS>>

\* conn.Write succeeds (only while that connection is the current one), or
\* fails and the error is logged
SendWrite ==
    /\ pcBin = "loaded" /\ binConn # 0
    /\ \E ok \in BOOLEAN :
        /\ ok => binConn = conn
        /\ binWritten' = IF ok THEN binWritten \cup {-nBins} ELSE binWritten
    /\ pcBin' = "idle"
    /\ binConn' = 0
    /\ UNCHANGED <<nBins, binDropped>>
    /\ UNCHANGED <<wsVars, runVars, notWS>>

\* ---- the task running Run / connectAndRead ------------------------------------

\* seconds a Dial can take (its timeout is 10 s) and seconds a connection
\* can last
DialSecs == {1, 8}

ConnSecs == {30, 55, 60, 90}

\* a delay backoff can return for attempt n
BackoffDelays(n) == { backoff(n, r) : r \in RandValues }

InConnectAndRead == pcRun \in {"dial", "drain_start", "drain", "read", "inject"}

\* time.Since(connStart) when connectAndRead has returned an error: the
\* time the Dial took, and the time the connection lasted if there was one
Elapsed(d, c) == IF pcRun = "after_conn" THEN d + c ELSE d

\* Run lines 89-98 with the counter at a: return when c.done is closed (ret),
\* else delay = backoff(a), attempt = a + 1
AfterOutcome(d, c, a, ret) ==
    /\ since' = [how  |-> IF pcRun = "after_conn" THEN "conn" ELSE "dial",
                 secs |-> Elapsed(d, c),
                 conn |-> IF pcRun = "after_conn" THEN c ELSE 0]
    /\ attemptBefore' = attempt
    /\ IF ret
       THEN /\ pcRun' = "returned"
            /\ wg' = wg - 1
            /\ attempt' = a
            /\ UNCHANGED delayAttempt
       ELSE /\ delayAttempt' = a
            /\ attempt' = a + 1
            /\ pcRun' = "wait"
            /\ UNCHANGED wg
    /\ UNCHANGED <<closed, cancelled, pcClose, nClose, wsPanic>>
    /\ UNCHANGED <<wsMode, conn, textQueue, batch, drainIdx, pcSend, sendConn, nFrames,
                   nConns, lastCut, q0, passed, clean, drained, drainDone, wire>>
    /\ UNCHANGED <<binVars, notWS>>

\* Run that resets the counter after every connection, whatever its length
RunAfterResetsOnConnect ==
    /\ ~wsPanic /\ pcRun \in {"after_dial", "after_conn"}
    /\ \E d \in DialSecs, c \in ConnSecs :
        AfterOutcome(d, c, IF pcRun = "after_conn" THEN 0 ELSE attempt, closed)

\* Run that never resets the counter
RunAfterNeverResets ==
    /\ ~wsPanic /\ pcRun \in {"after_dial", "after_conn"}
    /\ \E d \in DialSecs, c \in ConnSecs :
        AfterOutcome(d, c, attempt, closed)

\* Run that gives up after a failed dial
RunAfterGivesUp ==
    /\ ~wsPanic /\ pcRun \in {"after_dial", "after_conn"}
    /\ \E d \in DialSecs, c \in ConnSecs :
        AfterOutcome(d, c, IF Elapsed(d, c) > 60 THEN 0 ELSE attempt,
                     closed \/ pcRun = "after_dial")

\* conn.Read that Close does not unblock
WsReadNeverUnblocks ==
    /\ pcRun = "read" /\ closed /\ conn = 0
    /\ UNCHANGED vars

\* Run line 67: c.wg.Add(1)
RunStart ==
    /\ ~wsPanic /\ pcRun = "start"
    /\ wg' = wg + 1
    /\ pcRun' = "top"
    /\ UNCHANGED <<attempt, closed, cancelled, pcClose, nClose, since, attemptBefore,
                   delayAttempt, wsPanic>>
    /\ UNCHANGED <<wsMode, conn, textQueue, batch, drainIdx, pcSend, sendConn, nFrames,
                   nConns, lastCut, q0, passed, clean, drained, drainDone, wire>>
    /\ UNCHANGED <<binVars, notWS>>

\* Run lines 72-80: return when c.done is closed, else take connStart and call
\* connectAndRead, which makes a fresh ctx
RunTop ==
    /\ ~wsPanic /\ pcRun = "top"
    /\ IF closed
       THEN /\ pcRun' = "returned"
            /\ wg' = wg - 1
            /\ UNCHANGED <<cancelled, since>>
       ELSE /\ pcRun' = "dial"
            /\ cancelled' = FALSE
            /\ since' = NoSince
            /\ UNCHANGED wg
    /\ UNCHANGED <<attempt, closed, pcClose, nClose, attemptBefore, delayAttempt, wsPanic>>
    /\ UNCHANGED <<wsMode, conn, textQueue, batch, drainIdx, pcSend, sendConn, nFrames,
                   nConns, lastCut, q0, passed, clean, drained, drainDone, wire>>
    /\ UNCHANGED <<binVars, notWS>>

\* connectAndRead lines 223-229: the helper goroutine cancels ctx once c.done
\* is closed
CancelOnDone ==
    /\ ~wsPanic /\ InConnectAndRead
    /\ closed /\ ~cancelled
    /\ cancelled' = TRUE
    /\ UNCHANGED <<attempt, closed, pcClose, nClose, wg, since, attemptBefore,
                   delayAttempt, wsPanic>>
    /\ UNCHANGED <<wsVars, binVars, notWS>>

\* connectAndRead lines 243-254: Dial succeeds, setConn(conn)
WsConnect ==
    /\ ~wsPanic /\ pcRun = "dial"
    /\ ~cancelled
    /\ nConns < MaxConns
    /\ nConns' = nConns + 1
    /\ conn' = nConns + 1
    /\ clean' = (clean /\ pcSend \in {"idle", "off"})
    /\ pcRun' = "drain_start"
    /\ UNCHANGED <<wsMode, textQueue, batch, drainIdx, pcSend, sendConn, nFrames,
                   lastCut, q0, passed, drained, drainDone, wire>>
    /\ UNCHANGED <<binVars, runVars, notWS>>

\* connectAndRead lines 243-246: Dial fails (refused, timed out after 10 s, or
\* ctx cancelled) and connectAndRead returns the error
WsDialFail ==
    /\ ~wsPanic /\ pcRun = "dial"
    /\ cancelled \/ attempt < MaxAttempts
    /\ pcRun' = "after_dial"
    /\ UNCHANGED <<wsMode, conn, textQueue, batch, drainIdx, pcSend, sendConn, nFrames,
                   nConns, lastCut, q0, passed, clean, drained, drainDone, wire>>
    /\ UNCHANGED <<binVars, runVars, notWS>>

\* drainTextQueue lines 178-185: take the queue, leave nil; return when empty
DrainStart ==
    /\ ~wsPanic /\ pcRun = "drain_start"
    /\ batch' = textQueue
    /\ textQueue' = << >>
    /\ drainIdx' = 1
    /\ IF textQueue = << >>
       THEN /\ pcRun' = "read"
            /\ drainDone' = TRUE
       ELSE /\ pcRun' = "drain"
            /\ UNCHANGED drainDone
    /\ UNCHANGED <<wsMode, conn, pcSend, sendConn, nFrames, nConns, lastCut,
                   q0, passed, clean, drained, wire>>
    /\ UNCHANGED <<binVars, runVars, notWS>>

\* drainTextQueue lines 188-191: conn.Write of queue[i] succeeds
DrainWriteOk ==
    /\ ~wsPanic /\ pcRun = "drain"
    /\ drained' = Append(drained, batch[drainIdx])
    /\ wire' = Append(wire, [f |-> batch[drainIdx], by |-> "drain",
                             gap |-> batch[drainIdx] \in Range(passed)])
    /\ drainIdx' = drainIdx + 1
    /\ IF drainIdx = Len(batch)
       THEN /\ pcRun' = "read"
            /\ drainDone' = TRUE
       ELSE UNCHANGED <<pcRun, drainDone>>
    /\ UNCHANGED <<wsMode, conn, textQueue, batch, pcSend, sendConn, nFrames, nConns,
                   lastCut, q0, passed, clean>>
    /\ UNCHANGED <<binVars, runVars, notWS>>

\* drainTextQueue lines 192-203: conn.Write of queue[i] fails, queue[i:] goes
\* back in front of the queue, which is cut to textQueueSize
DrainWriteFail ==
    /\ ~wsPanic /\ pcRun = "drain"
    /\ textQueue' = Requeue(SubSeq(batch, drainIdx, Len(batch)), textQueue)
    /\ lastCut' = CutOf(SubSeq(batch, drainIdx, Len(batch)) \o textQueue, textQueue')
    /\ pcRun' = "read"
    /\ UNCHANGED <<wsMode, conn, batch, drainIdx, pcSend, sendConn, nFrames, nConns,
                   q0, passed, clean, drained, drainDone, wire>>
    /\ UNCHANGED <<binVars, runVars, notWS>>

\* connectAndRead lines 261-297: a message arrives and, unless the mode is W
\* or it is empty, is handed to c.inject
WsInbound ==
    /\ ~wsPanic /\ pcRun = "read"
    /\ ~cancelled
    /\ wsMode # "w"
    /\ pcRun' = "inject"
    /\ UNCHANGED <<wsMode, conn, textQueue, batch, drainIdx, pcSend, sendConn, nFrames,
                   nConns, lastCut, q0, passed, clean, drained, drainDone, wire>>
    /\ UNCHANGED <<binVars, runVars, notWS>>

\* the calls of c.inject have returned; back to conn.Read
WsInjectDone ==
    /\ ~wsPanic /\ pcRun = "inject"
    /\ pcRun' = "read"
    /\ UNCHANGED <<wsMode, conn, textQueue, batch, drainIdx, pcSend, sendConn, nFrames,
                   nConns, lastCut, q0, passed, clean, drained, drainDone, wire>>
    /\ UNCHANGED <<binVars, runVars, notWS>>

\* connectAndRead lines 262-271 and the deferred setConn(nil): conn.Read
\* fails while c.done is open, the error is returned to Run
WsDisconnect ==
    /\ ~wsPanic /\ pcRun = "read"
    /\ ~closed
    /\ conn' = 0
    /\ pcRun' = "after_conn"
    /\ q0' = textQueue
    /\ passed' = << >>
    /\ clean' = (pcSend \in {"idle", "off"})
    /\ drained' = << >>
    /\ drainDone' = FALSE
    /\ wire' = << >>
    /\ batch' = << >>
    /\ drainIdx' = 0
    /\ UNCHANGED <<wsMode, textQueue, pcSend, sendConn, nFrames, nConns, lastCut>>
    /\ UNCHANGED <<binVars, runVars, notWS>>

\* connectAndRead lines 262-269 and Run lines 80-83: conn.Read fails and
\* c.done is closed: conn.Close, return nil, and Run returns
WsReadDone ==
    /\ ~wsPanic /\ pcRun = "read"
    /\ closed
    /\ conn' = 0
    /\ pcRun' = "returned"
    /\ wg' = wg - 1
    /\ UNCHANGED <<attempt, closed, cancelled, pcClose, nClose, since, attemptBefore,
                   delayAttempt, wsPanic>>
    /\ UNCHANGED <<wsMode, textQueue, batch, drainIdx, pcSend, sendConn, nFrames,
                   nConns, lastCut, q0, passed, clean, drained, drainDone, wire>>
    /\ UNCHANGED <<binVars, notWS>>

\* Run lines 85-98 after connectAndRead returned an error: the counter is
\* reset when more than 60 s have passed since connStart; Run returns when
\* c.done is closed; else delay = backoff(attempt), attempt++
RunAfter ==
    /\ ~wsPanic /\ pcRun \in {"after_dial", "after_conn"}
    /\ \E d \in DialSecs, c \in ConnSecs :
        AfterOutcome(d, c, IF Elapsed(d, c) > 60 THEN 0 ELSE attempt, closed)

\* Run lines 100-104: the delay has passed
RunWaitElapsed ==
    /\ ~wsPanic /\ pcRun = "wait"
    /\ pcRun' = "top"
    /\ UNCHANGED <<wsMode, conn, textQueue, batch, drainIdx, pcSend, sendConn, nFrames,
                   nConns, lastCut, q0, passed, clean, drained, drainDone, wire>>
    /\ UNCHANGED <<binVars, runVars, notWS>>

\* Run lines 100-104: c.done is closed during the wait
RunWaitDone ==
    /\ ~wsPanic /\ pcRun = "wait"
    /\ closed
    /\ pcRun' = "returned"
    /\ wg' = wg - 1
    /\ UNCHANGED <<attempt, closed, cancelled, pcClose, nClose, since, attemptBefore,
                   delayAttempt, wsPanic>>
    /\ UNCHANGED <<wsMode, conn, textQueue, batch, drainIdx, pcSend, sendConn, nFrames,
                   nConns, lastCut, q0, passed, clean, drained, drainDone, wire>>
    /\ UNCHANGED <<binVars, notWS>>

\* ---- the task calling Close (lines 209-212) ------------------------------------

\* close(c.done): closing a closed channel panics
CloseCall ==
    /\ ~wsPanic /\ pcClose = "idle"
    /\ nClose < MaxCloses
    /\ IF closed
       THEN /\ wsPanic' = TRUE
            /\ UNCHANGED <<closed, pcClose>>
       ELSE /\ closed' = TRUE
            /\ pcClose' = "wait"
            /\ UNCHANGED wsPanic
    /\ UNCHANGED <<attempt, cancelled, nClose, wg, since, attemptBefore, delayAttempt>>
    /\ UNCHANGED <<wsVars, binVars, notWS>>

\* c.wg.Wait() returns, and Close with it
CloseWait ==
    /\ ~wsPanic /\ pcClose = "wait"
    /\ wg = 0
    /\ pcClose' = "idle"
    /\ nClose' = nClose + 1
    /\ UNCHANGED <<attempt, closed, cancelled, wg, since, attemptBefore, delayAttempt,
                   wsPanic>>
    /\ UNCHANGED <<wsVars, binVars, notWS>>

\* ---- specification ------------------------------------------------------------------

\* NewWSClient has returned; Run and the caller of SendText are about to start
WSInit ==
    /\ wsMode \in WSModes
    /\ conn = 0 /\ pcRun = "dial" /\ textQueue = << >>
    /\ batch = << >> /\ drainIdx = 0 /\ pcSend = "idle" /\ sendConn = 0
    /\ nFrames = 0 /\ nConns = 0 /\ lastCut = NoCut
    /\ q0 = << >> /\ passed = << >> /\ clean = TRUE
    /\ drained = << >> /\ drainDone = FALSE /\ wire = << >>
    /\ pcBin = "off" /\ binConn = 0 /\ nBins = 0
    /\ binDropped = {} /\ binWritten = {}
    /\ RunLooping
    /\ HookOff
    /\ RelayOff
    /\ FnOff
    /\ StrOff
    /\ RestOff

WSNext ==
    \/ SendTextStart
    \/ SendTextNoConn
    \/ SendTextWriteOk
    \/ SendTextWriteFail
    \/ WsConnect
    \/ DrainStart
    \/ DrainWriteOk
    \/ DrainWriteFail
    \/ WsDisconnect
    \/ RunAfter
    \/ RunWaitElapsed
    \/ RunTop

SpecWS == WSInit /\ [][WSNext]_vars

\* The client with the output reader calling Send, and no caller of SendText:
\* the retry queue starts with the frames earlier SendText calls left in it.
BinInit ==
    /\ wsMode \in WSModes
    /\ conn = 0 /\ pcRun = "dial"
    /\ \E n \in 0..textQueueSize :
        /\ textQueue = [i \in 1..n |-> i]
        /\ nFrames = n
    /\ wsMode = "r" => textQueue = << >>
    /\ batch = << >> /\ drainIdx = 0 /\ pcSend = "off" /\ sendConn = 0
    /\ nConns = 0 /\ lastCut = NoCut
    /\ q0 = << >> /\ passed = << >> /\ clean = TRUE
    /\ drained = << >> /\ drainDone = FALSE /\ wire = << >>
    /\ pcBin = "idle" /\ binConn = 0 /\ nBins = 0
    /\ binDropped = {} /\ binWritten = {}
    /\ RunLooping
    /\ HookOff
    /\ RelayOff
    /\ FnOff
    /\ StrOff
    /\ RestOff

BinNext ==
    \/ SendStart
    \/ SendNoConn
    \/ SendWrite
    \/ WsConnect
    \/ DrainStart
    \/ DrainWriteOk
    \/ DrainWriteFail
    \/ WsDisconnect
    \/ RunAfter
    \/ RunWaitElapsed
    \/ RunTop

SpecBin == BinInit /\ [][BinNext]_vars

\* The client from NewWSClient on, with a task that calls Close and no caller
\* of SendText or Send: the retry queue starts with what earlier SendText
\* calls left in it.
RunInit ==
    /\ wsMode \in WSModes
    /\ conn = 0 /\ pcRun = "start"
    /\ \E n \in 0..2 :
        /\ textQueue = [i \in 1..n |-> i]
        /\ nFrames = n
    /\ wsMode = "r" => textQueue = << >>
    /\ batch = << >> /\ drainIdx = 0 /\ pcSend = "off" /\ sendConn = 0
    /\ nConns = 0 /\ lastCut = NoCut
    /\ q0 = << >> /\ passed = << >> /\ clean = TRUE
    /\ drained = << >> /\ drainDone = FALSE /\ wire = << >>
    /\ pcBin = "off" /\ binConn = 0 /\ nBins = 0
    /\ binDropped = {} /\ binWritten = {}
    /\ attempt = 0 /\ closed = FALSE /\ cancelled = FALSE
    /\ pcClose = "idle" /\ nClose = 0 /\ wg = 0
    /\ since = NoSince /\ attemptBefore = 0 /\ delayAttempt = 0
    /\ wsPanic = FALSE
    /\ HookOff
    /\ RelayOff
    /\ FnOff
    /\ StrOff
    /\ RestOff

\* the steps of the task running Run
RunTask ==
    \/ RunStart
    \/ RunTop
    \/ WsConnect
    \/ WsDialFail
    \/ DrainStart
    \/ DrainWriteOk
    \/ DrainWriteFail
    \/ WsInbound
    \/ WsInjectDone
    \/ WsDisconnect
    \/ WsReadDone
    \/ RunAfter
    \/ RunWaitElapsed
    \/ RunWaitDone

RunNext ==
    \/ RunStart
    \/ RunTop
    \/ CancelOnDone
    \/ WsConnect
    \/ WsDialFail
    \/ DrainStart
    \/ DrainWriteOk
    \/ DrainWriteFail
    \/ WsInbound
    \/ WsInjectDone
    \/ WsDisconnect
    \/ WsReadDone
    \/ RunAfter
    \/ RunWaitElapsed
    \/ RunWaitDone
    \/ CloseCall
    \/ CloseWait

SpecRun == RunInit /\ [][RunNext]_vars

\* The scheduler runs every task that can take a step; a Dial, a Write and a
\* Read under a cancelled ctx end within their timeouts; c.inject returns.
RunFairness ==
    /\ WF_vars(RunTask)
    /\ WF_vars(CancelOnDone)
    /\ WF_vars(CloseWait)

SpecRunLive == RunInit /\ [][RunNext]_vars /\ RunFairness

-----------------------------------------------------------------------------
\* ============ WebSocket client: handling of one inbound message ===========

MaxPayload == 3   \* length of an inbound payload

PayloadBytes == {"x", LF, CR}

Payloads == UNION { [1..n -> PayloadBytes] : n \in 0..MaxPayload }

\* connectAndRead lines 273-297: the calls of c.inject, in order, that one
\* message with payload data leads to in the given mode
Injected(mode, payload) ==
    IF Len(payload) > 0 /\ mode # "w" THEN InjectCalls(payload) ELSE << >>

InjectInit ==
    /\ fnIn \in [fn : {"inject"}, mode : WSModes, payload : Payloads]
    /\ fnOut = << >>
    /\ HookOff
    /\ RelayOff
    /\ WsOff
    /\ StrOff
    /\ RestOff

\* conn.Read returned the message; the body of the read loop runs once
InjectCall ==
    /\ fnOut = << >>
    /\ fnIn.fn = "inject"
    /\ fnOut' = << Injected(fnIn.mode, fnIn.payload) >>
    /\ UNCHANGED fnIn
    /\ UNCHANGED notFn

InjectNext == InjectCall

SpecInject == InjectInit /\ [][InjectNext]_vars

-----------------------------------------------------------------------------
\* ======================= transcript streamer ==============================
\* Hook invocations of one Claude session (one session id, hence one PID
\* file) are separate processes and may overlap. Streamer k is the one spawned
\* by hook invocation k; k stands for its pid (pids are not reused here).

StreamRelays == {"r1", "r2"}

\* proc.Signal(nil) == nil (line 295): nil is not a syscall.Signal, so Signal
\* returns the error "os: unsupported signal type" for every process, whether
\* it runs or not, and the test is never true
Alive(pid) == FALSE

\* the streamer process k exists, so that a SIGKILL sent to its pid ends it
Exists(k) == str[k] \in {"starting", "running"}

\* the streamer processes that exist
Live == {k \in HookIds : Exists(k)}

\* a hook process reaches maybeStartStreamer with a transcript path and the
\* session id (lines 276-284)
MaybeEnter(h, r) ==
    /\ hk[h] = "idle"
    /\ hk' = [hk EXCEPT ![h] = "check"]
    /\ hkRelay' = [hkRelay EXCEPT ![h] = r]
    /\ UNCHANGED <<str, pidFile>>
    /\ UNCHANGED notStr

\* lines 286-306: read the PID file; return when it names this relay id and
\* the liveness test of line 295 succeeds, else SIGKILL the process the file
\* names, whatever its relay id, and go on to spawn
MaybeCheck(h) ==
    /\ hk[h] = "check"
    /\ IF pidFile # NoPidFile /\ pidFile.relay = hkRelay[h] /\ Alive(pidFile.pid)
       THEN /\ hk' = [hk EXCEPT ![h] = "done"]
            /\ UNCHANGED str
       ELSE /\ hk' = [hk EXCEPT ![h] = "spawn"]
            /\ str' = IF pidFile # NoPidFile /\ Exists(pidFile.pid)
                      THEN [str EXCEPT ![pidFile.pid] = "killed"]
                      ELSE str
    /\ UNCHANGED <<hkRelay, pidFile>>
    /\ UNCHANGED notStr

\* lines 308-347: cmd.Start succeeds, the streamer process exists
MaybeSpawn(h) ==
    /\ hk[h] = "spawn"
    /\ hk' = [hk EXCEPT ![h] = "write"]
    /\ str' = [str EXCEPT ![h] = "starting"]
    /\ UNCHANGED <<hkRelay, pidFile>>
    /\ UNCHANGED notStr

\* lines 309-313, 344-347: os.Executable or cmd.Start fails
MaybeSpawnFails(h) ==
    /\ hk[h] = "spawn"
    /\ hk' = [hk EXCEPT ![h] = "done"]
    /\ UNCHANGED <<hkRelay, str, pidFile>>
    /\ UNCHANGED notStr

\* lines 349-353: the hook writes "<pid> <relayID>" and returns
MaybeWritePid(h) ==
    /\ hk[h] = "write"
    /\ hk' = [hk EXCEPT ![h] = "done"]
    /\ pidFile' = [pid |-> h, relay |-> hkRelay[h]]
    /\ UNCHANGED <<hkRelay, str>>
    /\ UNCHANGED notStr

\* runStream lines 38-41: the streamer writes "<pid> <relayID>" on startup
StreamStartup(k) ==
    /\ str[k] = "starting"
    /\ str' = [str EXCEPT ![k] = "running"]
    /\ pidFile' = [pid |-> k, relay |-> hkRelay[k]]
    /\ UNCHANGED <<hk, hkRelay>>
    /\ UNCHANGED notStr

\* runStream lines 33-36: without a bridge file and with no device id or
\* server the streamer exits before it touches the PID file
StreamMissingFlags(k) ==
    /\ str[k] = "starting"
    /\ str' = [str EXCEPT ![k] = "exited"]
    /\ UNCHANGED <<hk, hkRelay, pidFile>>
    /\ UNCHANGED notStr

\* runStream lines 41-48: streamToBridge or streamTranscript returns (the
\* transcript never appeared, a fatal response, a read or write error) and
\* the deferred os.Remove deletes the PID file, whatever it holds
StreamReturns(k) ==
    /\ str[k] = "running"
    /\ str' = [str EXCEPT ![k] = "exited"]
    /\ pidFile' = NoPidFile
    /\ UNCHANGED <<hk, hkRelay>>
    /\ UNCHANGED notStr

StreamerInit ==
    /\ NoStreamer
    /\ HookOff
    /\ RelayOff
    /\ WsOff
    /\ FnOff
    /\ RestOff

StreamerNext ==
    \/ \E h \in HookIds, r \in StreamRelays : MaybeEnter(h, r)
    \/ \E h \in HookIds : MaybeCheck(h)
    \/ \E h \in HookIds : MaybeSpawn(h)
    \/ \E h \in HookIds : MaybeSpawnFails(h)
    \/ \E h \in HookIds : MaybeWritePid(h)
    \/ \E k \in HookIds : StreamStartup(k)
    \/ \E k \in HookIds : StreamMissingFlags(k)
    \/ \E k \in HookIds : StreamReturns(k)

SpecStreamer == StreamerInit /\ [][StreamerNext]_vars

-----------------------------------------------------------------------------
\* ============ enrollment by the hook invocations of one relay id ==========
\* Permission hooks of one session (one relay id, hence one marker file) are
\* separate processes and may overlap. Each has a relay id and a transcript
\* path, so each calls enrollSessionWithMarker (handlePermissionRequest line
\* 154) before its POST /request.

RequestStatuses == {200, 401}

\* where an invocation goes when enrollSessionWithMarker returns: the first
\* call is followed by POST /request, the call of the 401 path by the retry and
\* the end of the process
AfterEnroll(pc) == IF pc \in {"stat", "post", "mark"} THEN "request" ELSE "done"

\* handlePermissionRequest lines 152-155
EnrollEnter(h) ==
    /\ ePC[h] = "idle"
    /\ ePC' = [ePC EXCEPT ![h] = "stat"]
    /\ UNCHANGED <<eMarker, ePosts, eRetried, eRejected>>
    /\ UNCHANGED notEn

\* enrollSessionWithMarker lines 259-262: os.Stat(marker)
EnrollStat(h) ==
    /\ ePC[h] \in {"stat", "stat2"}
    /\ ePC' = [ePC EXCEPT ![h] =
                  IF eMarker THEN AfterEnroll(ePC[h])
                  ELSE IF ePC[h] = "stat" THEN "post" ELSE "post2"]
    /\ UNCHANGED <<eMarker, ePosts, eRetried, eRejected>>
    /\ UNCHANGED notEn

\* enrollSessionWithMarker lines 263-265: enrollSession POSTs to
\* /session/enroll; the first call's error is ignored (line 155), the error
\* of the call on the 401 path ends the process with a deny (lines 179-181)
EnrollPost(h, outcome) ==
    /\ ePC[h] \in {"post", "post2"}
    /\ ePosts' = ePosts + 1
    /\ eRejected' = (eRejected \/ outcome # "approved")
    /\ ePC' = [ePC EXCEPT ![h] =
                  IF outcome = "approved"
                  THEN (IF ePC[h] = "post" THEN "mark" ELSE "mark2")
                  ELSE AfterEnroll(ePC[h])]
    /\ UNCHANGED <<eMarker, eRetried>>
    /\ UNCHANGED notEn

\* enrollSessionWithMarker lines 266-267: os.WriteFile(marker), whose error is
\* ignored, so the marker is written or left as it is
EnrollMark(h, written) ==
    /\ ePC[h] \in {"mark", "mark2"}
    /\ eMarker' = IF written THEN TRUE ELSE eMarker
    /\ ePC' = [ePC EXCEPT ![h] = AfterEnroll(ePC[h])]
    /\ UNCHANGED <<ePosts, eRetried, eRejected>>
    /\ UNCHANGED notEn

\* handlePermissionRequest lines 170-189: POST /request; on 401 the marker is
\* removed and enrollSessionWithMarker is called again
EnrollRequest(h, status) ==
    /\ ePC[h] = "request"
    /\ IF status = 401
       THEN /\ eMarker' = FALSE
            /\ eRetried' = eRetried \cup {h}
            /\ ePC' = [ePC EXCEPT ![h] = "stat2"]
       ELSE /\ ePC' = [ePC EXCEPT ![h] = "done"]
            /\ UNCHANGED <<eMarker, eRetried>>
    /\ UNCHANGED <<ePosts, eRejected>>
    /\ UNCHANGED notEn

\* no marker, no hook invocation yet
EnrollInit ==
    /\ ePC = [h \in HookIds |-> "idle"]
    /\ eMarker = FALSE /\ ePosts = 0 /\ eRetried = {} /\ eRejected = FALSE
    /\ HookOff
    /\ RelayOff
    /\ WsOff
    /\ FnOff
    /\ StrOff
    /\ BrOff /\ ConOff /\ HtOff /\ SbOff /\ SsOff

EnrollNext ==
    \/ \E h \in HookIds : EnrollEnter(h)
    \/ \E h \in HookIds : EnrollStat(h)
    \/ \E h \in HookIds, o \in EnrollOutcomes : EnrollPost(h, o)
    \/ \E h \in HookIds, written \in BOOLEAN : EnrollMark(h, written)
    \/ \E h \in HookIds, st \in RequestStatuses : EnrollRequest(h, st)

SpecEnroll == EnrollInit /\ [][EnrollNext]_vars

-----------------------------------------------------------------------------
\* ============================ bridge tailer ================================
\* tailBridge has opened the bridge file and seeked to its end; the streamer
\* appends to the file, byte by byte here, so that a line can be split across
\* appends and reads in every way.

MaxBridgeBytes == 4   \* bytes appended to the bridge file

BridgeBytes == {"a", LF, CR}

\* trimNewline (stream.go lines 215-220): drop the trailing '\n' and '\r'
RECURSIVE trimNewline(_)
trimNewline(t) ==
    IF t # << >> /\ t[Len(t)] \in {LF, CR}
    THEN trimNewline(SubSeq(t, 1, Len(t) - 1))
    ELSE t

\* the frame tailBridge builds for a line
TranscriptFrame(line) == [type |-> "transcript", data |-> line]

\* what reader.ReadString('\n') has to read from
BridgeAvail == SubSeq(brFile, brOff + 1, Len(brFile))

\* the line ReadString returns: up to and including the first '\n' with
\* err = nil, else all that is available with err = io.EOF
BridgeLine ==
    IF LF \in Range(BridgeAvail)
    THEN SubSeq(BridgeAvail, 1, FirstIndex(BridgeAvail, LF))
    ELSE BridgeAvail

\* the streamer (or anyone) appends a byte to the bridge file
BridgeAppend(b) ==
    /\ brPC \notin {"off", "finished"}
    /\ Len(brFile) < MaxBridgeBytes
    /\ brFile' = Append(brFile, b)
    /\ UNCHANGED <<brOff, brPartial, brFrames, brPC, brDone>>
    /\ UNCHANGED notBr

\* runConnect line 137: close(bridgeDone)
BridgeSignal ==
    /\ brPC # "off" /\ ~brDone
    /\ brDone' = TRUE
    /\ UNCHANGED <<brFile, brOff, brPartial, brFrames, brPC>>
    /\ UNCHANGED notBr

\* tailBridge lines 42, 67-72: the poll of done at the head of the loop
TailPoll ==
    /\ brPC = "poll"
    /\ brPC' = IF brDone THEN "drain" ELSE "read"
    /\ UNCHANGED <<brFile, brOff, brPartial, brFrames, brDone>>
    /\ UNCHANGED notBr

\* tailBridge lines 74-95: ReadString returns a complete line, which is sent
\* with the buffered partial in front unless it is empty after trimming, or it
\* returns what there is with io.EOF, which is added to partial
TailRead ==
    /\ brPC = "read"
    /\ brOff' = brOff + Len(BridgeLine)
    /\ IF LF \in Range(BridgeAvail)
       THEN /\ brPartial' = << >>
            /\ brFrames' = IF trimNewline(brPartial \o BridgeLine) # << >>
                           THEN Append(brFrames,
                                       TranscriptFrame(trimNewline(brPartial \o BridgeLine)))
                           ELSE brFrames
       ELSE /\ brPartial' = brPartial \o BridgeLine
            /\ UNCHANGED brFrames
    /\ brPC' = "poll"
    /\ UNCHANGED <<brFile, brDone>>
    /\ UNCHANGED notBr

\* tailBridge lines 88-92: ReadString fails with an error other than io.EOF
TailReadError ==
    /\ brPC = "read"
    /\ brPC' = "finished"
    /\ UNCHANGED <<brFile, brOff, brPartial, brFrames, brDone>>
    /\ UNCHANGED notBr

\* tailBridge lines 42-65, one turn of the drain pass: a complete line is sent
\* as above; on io.EOF or an error what ReadString returned is dropped, the
\* buffered partial is sent if there is one, and tailBridge returns
TailDrainRead ==
    /\ brPC = "drain"
    /\ brOff' = brOff + Len(BridgeLine)
    /\ IF LF \in Range(BridgeAvail)
       THEN /\ brPartial' = << >>
            /\ brFrames' = IF trimNewline(brPartial \o BridgeLine) # << >>
                           THEN Append(brFrames,
                                       TranscriptFrame(trimNewline(brPartial \o BridgeLine)))
                           ELSE brFrames
            /\ UNCHANGED brPC
       ELSE /\ brFrames' = IF brPartial # << >>
                           THEN Append(brFrames, TranscriptFrame(brPartial))
                           ELSE brFrames
            /\ brPC' = "finished"
            /\ UNCHANGED brPartial
    /\ UNCHANGED <<brFile, brDone>>
    /\ UNCHANGED notBr

\* tailBridge lines 33-40
BridgeInit ==
    /\ brFile = << >> /\ brOff = 0 /\ brPartial = << >> /\ brFrames = << >>
    /\ brPC = "poll" /\ brDone = FALSE
    /\ HookOff
    /\ RelayOff
    /\ WsOff
    /\ FnOff
    /\ StrOff
    /\ EnOff /\ ConOff /\ HtOff /\ SbOff /\ SsOff

BridgeNext ==
    \/ \E b \in BridgeBytes : BridgeAppend(b)
    \/ BridgeSignal
    \/ TailPoll
    \/ TailRead
    \/ TailReadError
    \/ TailDrainRead

SpecBridge == BridgeInit /\ [][BridgeNext]_vars

-----------------------------------------------------------------------------
\* ==================== runConnect from enrollment on =======================
\* The configuration is resolved (ConnectResolveConfig); what follows is lines
\* 88-146 of runConnect with Relay.Run in between, as the steps that matter
\* for what the host has done and in which order. cLog records them.

\* results of enrollSession (part_004 lines 33-71)
ConnEnrollResults ==
    {"approved", "request_failed", "bad_status", "undecodable", "not_approved"}

ChildCodes == {0, 1}

Did(e) == e \in Range(cLog)

\* os.Exit: the process ends at once, deferred calls do not run
ConnOsExit(code, log) ==
    /\ cPC' = "exited"
    /\ cExit' = code
    /\ cLog' = log
    /\ cTail' = IF cTail = "off" THEN "off" ELSE "gone"

\* variant: a failed enrollment is only reported
ConnEnrollGoesOn(result) ==
    /\ cPC = "enroll"
    /\ cLog' = Append(cLog, "enroll_" \o result)
    /\ cPC' = "hooks"
    /\ UNCHANGED <<cBridge, cTail, cExit, cRunErr>>
    /\ UNCHANGED notCon

\* runConnect lines 88-92: enrollSession; on an error, exit status 1
ConnEnroll(result) ==
    /\ cPC = "enroll"
    /\ IF result = "approved"
       THEN /\ cLog' = Append(cLog, "enroll_" \o result)
            /\ cPC' = "hooks"
            /\ UNCHANGED <<cTail, cExit>>
       ELSE ConnOsExit(1, Append(cLog, "enroll_" \o result))
    /\ UNCHANGED <<cBridge, cRunErr>>
    /\ UNCHANGED notCon

\* runConnect lines 94-97: installHooks; a failure is only logged
ConnInstallHooks(ok) ==
    /\ cPC = "hooks"
    /\ cLog' = Append(cLog, IF ok THEN "hooks_installed" ELSE "hooks_failed")
    /\ cPC' = "bridge"
    /\ UNCHANGED <<cBridge, cTail, cExit, cRunErr>>
    /\ UNCHANGED notCon

\* runConnect lines 99-104: os.Create(bridgePath), its error ignored, and
\* defer os.Remove(bridgePath)
ConnCreateBridge(ok) ==
    /\ cPC = "bridge"
    /\ cBridge' = ok
    /\ cLog' = Append(cLog, IF ok THEN "bridge_created" ELSE "bridge_failed")
    /\ cPC' = "new"
    /\ UNCHANGED <<cTail, cExit, cRunErr>>
    /\ UNCHANGED notCon

\* runConnect lines 114-118, New: openPTY; on an error, exit status 1
ConnNew(ok) ==
    /\ cPC = "new"
    /\ IF ok
       THEN /\ cLog' = Append(cLog, "pty_opened")
            /\ cPC' = "tailer"
            /\ UNCHANGED <<cTail, cExit>>
       ELSE ConnOsExit(1, cLog)
    /\ UNCHANGED <<cBridge, cRunErr>>
    /\ UNCHANGED notCon

\* runConnect lines 120-130: the goroutine running tailBridge is started; it
\* begins in tailBridge's loop that waits until the bridge path can be opened
ConnStartTailer ==
    /\ cPC = "tailer"
    /\ cTail' = "opening"
    /\ cPC' = "setRaw"
    /\ UNCHANGED <<cLog, cBridge, cExit, cRunErr>>
    /\ UNCHANGED notCon

\* Relay.Run lines 67-77: setRaw; on an error Run returns it
ConnRunSetRaw(ok) ==
    /\ cPC = "setRaw"
    /\ cPC' = IF ok THEN "start" ELSE "cleanup"
    /\ cRunErr' = ~ok
    /\ UNCHANGED <<cLog, cBridge, cTail, cExit>>
    /\ UNCHANGED notCon

\* Relay.Run lines 79-102: cmd.Start, on an error Run returns it; then
\* go r.ws.Run(), which dials
ConnRunStart(ok) ==
    /\ cPC = "start"
    /\ IF ok
       THEN /\ cLog' = cLog \o <<"child_started", "ws_dialled">>
            /\ cPC' = "wait"
            /\ UNCHANGED cRunErr
       ELSE /\ cPC' = "cleanup"
            /\ cRunErr' = TRUE
            /\ UNCHANGED cLog
    /\ UNCHANGED <<cBridge, cTail, cExit>>
    /\ UNCHANGED notCon

\* Relay.Run lines 179-191: cmd.Wait returns (an error when the child's
\* status is not 0), the master is closed, the output reader is awaited
ConnRunWait(code) ==
    /\ cPC = "wait"
    /\ cRunErr' = (code # 0)
    /\ cLog' = Append(cLog, "master_closed")
    /\ cPC' = "cleanup"
    /\ UNCHANGED <<cBridge, cTail, cExit>>
    /\ UNCHANGED notCon

\* Relay.cleanup, deferred by Run: restoreTermios, and close the master
\* unless Run has closed it (r.master is nil then)
ConnRunCleanup ==
    /\ cPC = "cleanup"
    /\ cLog' = cLog \o <<"termios_restored">>
                    \o (IF Did("master_closed") THEN << >> ELSE <<"master_closed">>)
    /\ cPC' = "signal"
    /\ UNCHANGED <<cBridge, cTail, cExit, cRunErr>>
    /\ UNCHANGED notCon

\* variant: the tailer is signalled and not waited for
ConnSignalNoWait ==
    /\ cPC = "signal"
    /\ cLog' = Append(cLog, "tailer_signalled")
    /\ cPC' = "closeWS"
    /\ UNCHANGED <<cBridge, cTail, cExit, cRunErr>>
    /\ UNCHANGED notCon

\* runConnect lines 136-137: close(bridgeDone). The tailer sees it at its
\* next select on done.
ConnSignalTailer ==
    /\ cPC = "signal"
    /\ cLog' = Append(cLog, "tailer_signalled")
    /\ cPC' = "waitTailer"
    /\ UNCHANGED <<cBridge, cTail, cExit, cRunErr>>
    /\ UNCHANGED notCon

\* tailBridge lines 26-36: an os.Open of the bridge path that succeeds (the
\* file is there, or the path is a directory, which os.Open opens too); the
\* opens that fail leave the tailer where it is
ConnTailerOpen ==
    /\ cTail = "opening"
    /\ cTail' = "tailing"
    /\ UNCHANGED <<cPC, cLog, cBridge, cExit, cRunErr>>
    /\ UNCHANGED notCon

\* tailBridge lines 20-25: done is closed while the bridge path has not been
\* opened; tailBridge returns, no drain pass is made, and bridgeFinished is
\* closed (runConnect line 128)
ConnTailerGaveUp ==
    /\ cTail = "opening"
    /\ Did("tailer_signalled")
    /\ cTail' = "finished"
    /\ cLog' = Append(cLog, "tailer_returned")
    /\ UNCHANGED <<cPC, cBridge, cExit, cRunErr>>
    /\ UNCHANGED notCon

\* tailBridge lines 67-72: the select in the reading loop finds done closed;
\* stopping is set and the drain pass begins
ConnTailerStopping ==
    /\ cTail = "tailing"
    /\ Did("tailer_signalled")
    /\ cTail' = "draining"
    /\ UNCHANGED <<cPC, cLog, cBridge, cExit, cRunErr>>
    /\ UNCHANGED notCon

\* tailBridge lines 74, 88-92: ReadString fails with an error other than
\* io.EOF; tailBridge returns, signalled or not, no drain pass is made, and
\* bridgeFinished is closed (runConnect line 128)
ConnTailerReadError ==
    /\ cTail = "tailing"
    /\ cTail' = "finished"
    /\ cLog' = Append(cLog, "tailer_read_error")
    /\ UNCHANGED <<cPC, cBridge, cExit, cRunErr>>
    /\ UNCHANGED notCon

\* tailBridge lines 42-65: the drain pass ends, tailBridge returns and
\* bridgeFinished is closed (runConnect line 128)
ConnTailerDrained ==
    /\ cTail = "draining"
    /\ cTail' = "finished"
    /\ cLog' = Append(cLog, "tailer_drained")
    /\ UNCHANGED <<cPC, cBridge, cExit, cRunErr>>
    /\ UNCHANGED notCon

\* runConnect line 138: <-bridgeFinished
ConnWaitTailer ==
    /\ cPC = "waitTailer"
    /\ cTail = "finished"
    /\ cPC' = "closeWS"
    /\ UNCHANGED <<cLog, cBridge, cTail, cExit, cRunErr>>
    /\ UNCHANGED notCon

\* runConnect line 141: r.CloseWS()
ConnCloseWS ==
    /\ cPC = "closeWS"
    /\ cLog' = Append(cLog, "ws_closed")
    /\ cPC' = "end"
    /\ UNCHANGED <<cBridge, cTail, cExit, cRunErr>>
    /\ UNCHANGED notCon

\* runConnect lines 143-146: os.Exit(1) when Run returned an error; else the
\* function returns, the deferred os.Remove runs and main ends with status 0
ConnEnd ==
    /\ cPC = "end"
    /\ IF cRunErr
       THEN /\ ConnOsExit(1, cLog)
            /\ UNCHANGED cBridge
       ELSE /\ ConnOsExit(0, Append(cLog, "bridge_removed"))
            /\ cBridge' = FALSE
    /\ UNCHANGED cRunErr
    /\ UNCHANGED notCon

\* SIGKILL, or another signal with its default action
ConnKilled ==
    /\ cPC \notin {"off", "exited"}
    /\ ConnOsExit(137, cLog)
    /\ UNCHANGED <<cBridge, cRunErr>>
    /\ UNCHANGED notCon

ConnInit ==
    /\ cPC = "enroll" /\ cLog = << >> /\ cBridge = FALSE /\ cTail = "off"
    /\ cExit = -1 /\ cRunErr = FALSE
    /\ HookOff
    /\ RelayOff
    /\ WsOff
    /\ FnOff
    /\ StrOff
    /\ EnOff /\ BrOff /\ HtOff /\ SbOff /\ SsOff

ConnNext ==
    \/ \E r \in ConnEnrollResults : ConnEnroll(r)
    \/ \E ok \in BOOLEAN : ConnInstallHooks(ok)
    \/ \E ok \in BOOLEAN : ConnCreateBridge(ok)
    \/ \E ok \in BOOLEAN : ConnNew(ok)
    \/ ConnStartTailer
    \/ \E ok \in BOOLEAN : ConnRunSetRaw(ok)
    \/ \E ok \in BOOLEAN : ConnRunStart(ok)
    \/ \E code \in ChildCodes : ConnRunWait(code)
    \/ ConnRunCleanup
    \/ ConnSignalTailer
    \/ ConnTailerOpen
    \/ ConnTailerGaveUp
    \/ ConnTailerStopping
    \/ ConnTailerReadError
    \/ ConnTailerDrained
    \/ ConnWaitTailer
    \/ ConnCloseWS
    \/ ConnEnd
    \/ ConnKilled

SpecConnect == ConnInit /\ [][ConnNext]_vars

-----------------------------------------------------------------------------
\* ================= the streamer in HTTP mode (stream.go) ==================
\* streamTranscript reads the transcript line by line and POSTs each
\* non-empty line to /transcript. sPosts is the list of the POSTs made, each
\* with the number of its line and what came back.

MaxLines == 3

HttpStatuses == {200, 400, 404, 429, 499, 500, 503}

\* what postRawJSON gives back: an error, or a response with a status
PostOutcomes ==
    {[err |-> e, code |-> 0] : e \in {"network", "timeout"}}
        \cup {[err |-> "none", code |-> c] : c \in HttpStatuses}

\* variant: every status from 400 on is fatal
sendTranscriptLineStrict(o) ==
    IF o.err # "none"
    THEN TRUE
    ELSE ~(o.code >= 400)

\* stream.go lines 163-184: FALSE is "fatal, stop"
sendTranscriptLine(o) ==
    IF o.err # "none"
    THEN TRUE
    ELSE ~(o.code >= 400 /\ o.code < 500 /\ o.code # 429)

\* stream.go lines 113-127: the file is opened, or never appears
TranscriptOpen(ok) ==
    /\ sPC = "open"
    /\ sPC' = IF ok THEN "reading" ELSE "no_file"
    /\ UNCHANGED <<sNext, sPosts>>
    /\ UNCHANGED notHt

\* stream.go lines 136-146: a complete non-empty line is read and sent
TranscriptLine(o) ==
    /\ sPC = "reading"
    /\ sNext < MaxLines
    /\ sNext' = sNext + 1
    /\ sPosts' = Append(sPosts, [line |-> sNext + 1, outcome |-> o])
    /\ sPC' = IF sendTranscriptLine(o) THEN "reading" ELSE "fatal"
    /\ UNCHANGED notHt

\* stream.go lines 139-142: a line that is empty after trimNewline
TranscriptEmptyLine ==
    /\ sPC = "reading"
    /\ sNext < MaxLines
    /\ sNext' = sNext + 1
    /\ UNCHANGED <<sPC, sPosts>>
    /\ UNCHANGED notHt

\* stream.go lines 152-156: a read error other than io.EOF
TranscriptReadError ==
    /\ sPC = "reading"
    /\ sPC' = "read_error"
    /\ UNCHANGED <<sNext, sPosts>>
    /\ UNCHANGED notHt

TranscriptInit ==
    /\ sPC = "open" /\ sNext = 0 /\ sPosts = << >>
    /\ HookOff
    /\ RelayOff
    /\ WsOff
    /\ FnOff
    /\ StrOff
    /\ EnOff /\ BrOff /\ ConOff /\ SbOff /\ SsOff

TranscriptNext ==
    \/ \E ok \in BOOLEAN : TranscriptOpen(ok)
    \/ \E o \in PostOutcomes : TranscriptLine(o)
    \/ TranscriptEmptyLine
    \/ TranscriptReadError

SpecTranscript == TranscriptInit /\ [][TranscriptNext]_vars

-----------------------------------------------------------------------------
\* ===================== seekToLastLines (stream.go) ========================
\* The backfill of the streamer in HTTP mode: where the reader is left in a
\* transcript of newline-terminated lines.

MaxFileLen == 5   \* bytes in the transcript
MaxTail    == 2   \* the n of seekToLastLines (50 in streamTranscript)

\* transcripts made of newline-terminated lines, empty lines included
TranscriptFiles ==
    { f \in UNION { [1..k -> {"a", LF}] : k \in 0..MaxFileLen } :
        f = << >> \/ f[Len(f)] = LF }

\* seekToLastLines lines 198-209: the loop `for pos > 0`, pos counted from 0;
\* the result is the offset the file is left at
RECURSIVE SeekScan(_, _, _, _)
SeekScan(f, n, pos, count) ==
    IF pos <= 0 THEN 0
    ELSE IF f[pos + 1] = LF /\ count + 1 > n THEN pos + 1
    ELSE SeekScan(f, n, pos - 1, IF f[pos + 1] = LF THEN count + 1 ELSE count)

\* seekToLastLines lines 187-213
seekToLastLines(f, n) ==
    IF Len(f) = 0 THEN 0 ELSE SeekScan(f, n, Len(f) - 1, 0)

SeekInit ==
    /\ fnIn \in [fn : {"seek"}, file : TranscriptFiles, n : 1..MaxTail]
    /\ fnOut = << >>
    /\ HookOff
    /\ RelayOff
    /\ WsOff
    /\ StrOff
    /\ RestOff

\* streamTranscript line 130: seekToLastLines(f, n)
SeekCall ==
    /\ fnOut = << >>
    /\ fnIn.fn = "seek"
    /\ fnOut' = << seekToLastLines(fnIn.file, fnIn.n) >>
    /\ UNCHANGED fnIn
    /\ UNCHANGED notFn

SeekNext == SeekCall

SpecSeek == SeekInit /\ [][SeekNext]_vars

-----------------------------------------------------------------------------
\* ================= the streamer in bridge mode (stream.go) ===============

MaxTranscriptBytes == 4   \* bytes written to the transcript file

TranscriptBytes == {"a", LF, CR}

\* the newline-terminated lines of f, in order, each with its '\n'
RECURSIVE CompleteLines(_)
CompleteLines(f) ==
    IF LF \notin Range(f) THEN << >>
    ELSE <<SubSeq(f, 1, FirstIndex(f, LF))>>
         \o CompleteLines(SubSeq(f, FirstIndex(f, LF) + 1, Len(f)))

\* what follows the last '\n' of f
RECURSIVE UnterminatedTail(_)
UnterminatedTail(f) ==
    IF LF \notin Range(f) THEN f
    ELSE UnterminatedTail(SubSeq(f, FirstIndex(f, LF) + 1, Len(f)))

\* what reader.ReadString('\n') has to read from
TbAvail == SubSeq(tbFile, tbOff + 1, Len(tbFile))

\* the line ReadString returns: up to and including the first '\n' with
\* err = nil, else all that is available with err = io.EOF
TbLine ==
    IF LF \in Range(TbAvail)
    THEN SubSeq(TbAvail, 1, FirstIndex(TbAvail, LF))
    ELSE TbAvail

\* streamToBridge line 87
TbFullLine == trimNewline(tbPartial \o TbLine)

\* the session writes a byte to its transcript, before or after the streamer
\* has opened it
TranscriptWrite(b) ==
    /\ tbPC \in {"wait", "reading"}
    /\ Len(tbFile) < MaxTranscriptBytes
    /\ tbFile' = Append(tbFile, b)
    /\ UNCHANGED <<tbOff, tbPartial, tbOut, tbPC>>
    /\ UNCHANGED notSb

\* streamToBridge lines 54-80: the transcript is opened and read from its
\* beginning, the bridge is opened for appending (ok) or cannot be opened
TbOpen(ok) ==
    /\ tbPC = "wait"
    /\ tbPC' = IF ok THEN "reading" ELSE "ended"
    /\ UNCHANGED <<tbFile, tbOff, tbPartial, tbOut>>
    /\ UNCHANGED notSb

\* streamToBridge lines 55-66: the transcript never appeared in 300 tries
TbNeverAppeared ==
    /\ tbPC = "wait"
    /\ tbFile = << >>
    /\ tbPC' = "absent"
    /\ UNCHANGED <<tbFile, tbOff, tbPartial, tbOut>>
    /\ UNCHANGED notSb

\* the variant of TbRead that forgets the buffered partial line
TbReadNoPartial ==
    /\ tbPC = "reading"
    /\ TbAvail # << >>
    /\ tbOff' = tbOff + Len(TbLine)
    /\ IF LF \in Range(TbAvail)
       THEN /\ tbPartial' = << >>
            /\ tbOut' = IF trimNewline(TbLine) # << >>
                        THEN tbOut \o trimNewline(TbLine) \o <<LF>>
                        ELSE tbOut
       ELSE /\ tbPartial' = tbPartial \o TbLine
            /\ UNCHANGED tbOut
    /\ UNCHANGED <<tbFile, tbPC>>
    /\ UNCHANGED notSb

\* streamToBridge lines 84-99, 106: ReadString returns a complete line, which
\* is written to the bridge with the buffered partial in front and one '\n'
\* after it unless it is empty after trimming, or it returns what there is
\* with io.EOF, which is added to partial (a read that finds nothing changes
\* nothing)
TbRead ==
    /\ tbPC = "reading"
    /\ TbAvail # << >>
    /\ tbOff' = tbOff + Len(TbLine)
    /\ IF LF \in Range(TbAvail)
       THEN /\ tbPartial' = << >>
            /\ tbOut' = IF TbFullLine # << >>
                        THEN tbOut \o TbFullLine \o <<LF>>
                        ELSE tbOut
       ELSE /\ tbPartial' = tbPartial \o TbLine
            /\ UNCHANGED tbOut
    /\ UNCHANGED <<tbFile, tbPC>>
    /\ UNCHANGED notSb

\* streamToBridge lines 91-94: Fprintln fails, having written k bytes of the
\* line and its '\n' but not all of them; the streamer returns
TbWriteError(k) ==
    /\ tbPC = "reading"
    /\ LF \in Range(TbAvail)
    /\ TbFullLine # << >>
    /\ k \in 0..Len(TbFullLine)
    /\ tbOff' = tbOff + Len(TbLine)
    /\ tbPartial' = << >>
    /\ tbOut' = tbOut \o SubSeq(TbFullLine \o <<LF>>, 1, k)
    /\ tbPC' = "failed"
    /\ UNCHANGED tbFile
    /\ UNCHANGED notSb

\* streamToBridge lines 101-105: ReadString fails with an error other than
\* io.EOF
TbReadError ==
    /\ tbPC = "reading"
    /\ tbPC' = "ended"
    /\ UNCHANGED <<tbFile, tbOff, tbPartial, tbOut>>
    /\ UNCHANGED notSb

ToBridgeInit ==
    /\ tbFile = << >> /\ tbOff = 0 /\ tbPartial = << >> /\ tbOut = << >>
    /\ tbPC = "wait"
    /\ HookOff
    /\ RelayOff
    /\ WsOff
    /\ FnOff
    /\ StrOff
    /\ EnOff /\ BrOff /\ ConOff /\ HtOff /\ SsOff

ToBridgeNext ==
    \/ \E b \in TranscriptBytes : TranscriptWrite(b)
    \/ \E ok \in BOOLEAN : TbOpen(ok)
    \/ TbNeverAppeared
    \/ TbRead
    \/ \E k \in 0..MaxTranscriptBytes : TbWriteError(k)
    \/ TbReadError

SpecToBridge == ToBridgeInit /\ [][ToBridgeNext]_vars

\* ---- properties of the streamer in bridge mode ----

\* the part of the transcript the streamer has read
TbConsumed == SubSeq(tbFile, 1, tbOff)

\* the lines of ls without their '\n', each followed by one '\n', leaving out
\* the lines that hold nothing but the '\n'
RECURSIVE VerbatimLines(_)
VerbatimLines(ls) ==
    IF ls = << >> THEN << >>
    ELSE (IF Len(ls[1]) > 1 THEN ls[1] ELSE << >>) \o VerbatimLines(Tail(ls))

\* the lines of ls with their trailing '\n' and '\r' bytes removed, each
\* followed by one '\n', leaving out the lines that are empty after that
RECURSIVE TrimmedLines(_)
TrimmedLines(ls) ==
    IF ls = << >> THEN << >>
    ELSE (IF trimNewline(ls[1]) # << >> THEN trimNewline(ls[1]) \o <<LF>> ELSE << >>)
         \o TrimmedLines(Tail(ls))

IsPrefix(s, t) == Len(s) <= Len(t) /\ s = SubSeq(t, 1, Len(s))

\* C33 as stated: while the streamer runs, the bridge file holds exactly the
\* newline-terminated, non-empty lines the streamer has read from the
\* transcript, as they are in the transcript, in order and once each, and the
\* unterminated tail is held back.
C33_LinesAsTheyAre ==
    tbPC = "reading" =>
        /\ tbOut = VerbatimLines(CompleteLines(TbConsumed))
        /\ tbPartial = UnterminatedTail(TbConsumed)

\* C33, amended: while the streamer runs, the bridge file holds exactly the
\* newline-terminated lines the streamer has read from the transcript, each
\* with its trailing '\r' and '\n' bytes removed and one '\n' after it, in
\* order and once each, the lines that are empty after the removal left out,
\* and the unterminated tail is held back in partial; and at all times, also
\* after a failed write, the bridge file is a prefix of what the complete
\* lines of the transcript give.
C33_TrimmedLinesOnce ==
    /\ tbPC = "reading" =>
          /\ tbOut = TrimmedLines(CompleteLines(TbConsumed))
          /\ tbPartial = UnterminatedTail(TbConsumed)
    /\ IsPrefix(tbOut, TrimmedLines(CompleteLines(tbFile)))

\* a line ending in "\r\n" and an unterminated tail have been read
C33_Witness ==
    /\ tbPC = "reading"
    /\ tbFile = <<"a", CR, LF, "a">>
    /\ tbOff = 4
    /\ tbOut = <<"a", LF>>
    /\ tbPartial = <<"a">>

-----------------------------------------------------------------------------
\* ================= the sessions file (sessions.json) =====================
\* Hook process h handles the SessionStart of conversation h and records
\* relay id h for it.  ssFile.st is "absent", "empty" (truncated), "json" (a
\* marshalled map, ssFile.m) or "torn" (a shorter document written over a
\* longer one, ssFile.m being the longer one); 0 stands for no entry.

\* the number of entries of a map
Entries(m) == Cardinality({ c \in HookIds : m[c] # 0 })

\* loadSessions: nil, which saveRelayID replaces by an empty map, when the
\* file cannot be read or parsed
loadSessions == IF ssFile.st = "json" THEN ssFile.m ELSE NoSessions

\* lookupRelayID: "" (0) when there is no map or no entry
lookupRelayID(c) == loadSessions[c]

\* saveRelayID lines 106-110: m := loadSessions(); m[conversationID] = relayID
SaveLoad(h) ==
    /\ ssPC[h] = "start"
    /\ ssMap' = [ssMap EXCEPT ![h] = [loadSessions EXCEPT ![h] = h]]
    /\ ssPC' = [ssPC EXCEPT ![h] = "loaded"]
    /\ UNCHANGED ssFile
    /\ UNCHANGED notSs

\* saveRelayID line 117, os.WriteFile opening the file with O_TRUNC
SaveTruncate(h) ==
    /\ ssPC[h] = "loaded"
    /\ ssFile' = [st |-> "empty", m |-> NoSessions]
    /\ ssPC' = [ssPC EXCEPT ![h] = "truncated"]
    /\ UNCHANGED ssMap
    /\ UNCHANGED notSs

\* saveRelayID line 117, os.WriteFile writing the document at offset 0: over
\* a longer document written since the truncation it leaves that one's end
SaveWrite(h) ==
    /\ ssPC[h] = "truncated"
    /\ ssFile' = IF Entries(ssFile.m) > Entries(ssMap[h])
                 THEN [st |-> "torn", m |-> ssFile.m]
                 ELSE [st |-> "json", m |-> ssMap[h]]
    /\ ssPC' = [ssPC EXCEPT ![h] = "done"]
    /\ UNCHANGED ssMap
    /\ UNCHANGED notSs

SessionsInit ==
    /\ ssFile = [st |-> "absent", m |-> NoSessions]
    /\ ssPC = [h \in HookIds |-> "start"]
    /\ ssMap = [h \in HookIds |-> NoSessions]
    /\ HookOff
    /\ RelayOff
    /\ WsOff
    /\ FnOff
    /\ StrOff
    /\ EnOff /\ BrOff /\ ConOff /\ HtOff /\ SbOff

SessionsNext ==
    \E h \in HookIds : SaveLoad(h) \/ SaveTruncate(h) \/ SaveWrite(h)

SpecSessions == SessionsInit /\ [][SessionsNext]_vars

-----------------------------------------------------------------------------
\* ============ the hook process with its files and its streamer ===========

HookNext ==
    \/ HookResolveConfig
    \/ HookReadInput
    \/ HookDispatch
    \/ SessionStartEnroll
    \/ EnrollSessionPost
    \/ EnrollMarkerWrite
    \/ \E v \in BOOLEAN : OtherHookMarker(v)
    \/ SessionStartActivity
    \/ SessionStartSave
    \/ SaveLoad(Self)
    \/ SaveTruncate(Self)
    \/ SaveWrite(Self)
    \/ SessionStartStreamer
    \/ MaybeCheck(Self)
    \/ MaybeSpawn(Self)
    \/ MaybeSpawnFails(Self)
    \/ MaybeWritePid(Self)
    \/ SessionStartExit
    \/ HandleNotification
    \/ PermissionPreEnroll
    \/ PermissionStreamer
    \/ PermissionBuildPayload
    \/ PermissionPost
    \/ PermissionCheck401
    \/ PermissionReEnroll
    \/ PermissionRetry
    \/ PermissionDecide
    \/ ConnectResolveConfig

SpecHook == HookInit /\ [][HookNext]_vars

\* ---- properties of the sessions file ----

\* no os.WriteFile is between its truncation and its write
NoWriteInProgress == \A h \in HookIds : ssPC[h] # "truncated"

\* C38: whenever no write of the file is in progress, the relay id of every
\* conversation whose saveRelayID has completed is the one lookupRelayID
\* returns for it (each conversation is saved once, so no later save of the
\* same conversation replaces it).
C38_SavedMappingsStay ==
    NoWriteInProgress =>
        \A h \in HookIds : ssPC[h] = "done" => lookupRelayID(h) = h

-----------------------------------------------------------------------------
\* ================= properties of WSClient.Run and Close ==================

\* C12: Run returns only once c.done is closed, and while it is open every
\* dial failure and every connection error leads to a backoff wait, the wait
\* to the top of the loop, and the top of the loop to a new Dial.
C12_RunRetriesUntilClosed ==
    [][ /\ pcRun' = "returned" => closed
        /\ pcRun' # pcRun /\ ~closed =>
             /\ pcRun \in {"after_dial", "after_conn"} => pcRun' = "wait"
             /\ pcRun = "wait" => pcRun' = "top"
             /\ pcRun = "top" => pcRun' = "dial" ]_vars

\* Run is dialing again after two errors in a row, c.done still open
C12_Witness ==
    /\ pcRun = "dial" /\ ~closed
    /\ attempt >= 2

\* C13: once Close has been called, Run returns and the Close call returns
\* (unless a further Close call has brought the process down).
C13_CloseEndsRun ==
    closed ~> ((pcRun = "returned" /\ nClose >= 1) \/ wsPanic)

\* Close was called while a connection was up; its ctx was cancelled, Run has
\* returned and so has Close
C13_Witness ==
    /\ closed /\ cancelled /\ nConns >= 1
    /\ pcRun = "returned" /\ nClose >= 1 /\ ~wsPanic

\* C14: a second call of Close completes normally: the process never panics
\* in Close.
C14_CloseIdempotent == ~wsPanic

\* C24: once Close has returned, no frame that was handed to SendText before
\* it is left in the retry queue.
C24_NoFrameLeftAtClose ==
    nClose >= 1 => textQueue = << >>

\* C16 as stated: at the wait after an error, the counter was reset when a
\* connection had lasted at least 60 s, and was not reset after a failed dial
\* or a connection that lasted less than 60 s.
C16_ResetIffConnectionLasted60 ==
    pcRun = "wait" =>
        /\ since.how = "conn" /\ since.conn >= 60 => delayAttempt = 0
        /\ since.how = "dial" \/ since.conn < 60 => delayAttempt = attemptBefore

\* C16: time is measured from connStart, taken before the Dial. At the wait
\* after an error: when a connection had lasted at least 60 s the delay is
\* backoff(0), at most 1.25 s; when at most 60 s had passed since connStart,
\* as after every failed dial, the counter was not reset.
C16_ResetIffOver60SinceConnStart ==
    pcRun = "wait" =>
        /\ since.how = "conn" /\ since.conn >= 60 =>
             /\ delayAttempt = 0
             /\ \A ms \in BackoffDelays(delayAttempt) : ms <= 1250
        /\ since.secs <= 60 => delayAttempt = attemptBefore
        /\ since.how = "dial" => since.secs <= 60
        /\ attempt = delayAttempt + 1

\* a connection made after a failed dial has lasted 60 s or more, and Run
\* waits with the counter reset
C16_Witness ==
    /\ pcRun = "wait" /\ since.how = "conn" /\ since.conn >= 60
    /\ attemptBefore >= 1 /\ delayAttempt = 0 /\ attempt = 1

\* C17 as stated: at the wait after a connection has ended, the delay is the
\* first step of the schedule.
C17_ResetOnEveryConnection ==
    pcRun = "wait" /\ since.how = "conn" => delayAttempt = 0

\* C17: at the wait after a connection has ended, the delay is the first
\* step of the schedule when more than 60 s had passed since connStart, and
\* else the step of the counter as the errors before that connection left it.
C17_ResetOnlyOver60 ==
    pcRun = "wait" /\ since.how = "conn" =>
        delayAttempt = IF since.secs > 60 THEN 0 ELSE attemptBefore

\* a short connection made after a failed dial has ended, and Run waits the
\* second step of the schedule
C17_Witness ==
    /\ pcRun = "wait" /\ since.how = "conn" /\ since.secs <= 60
    /\ attemptBefore = 1 /\ delayAttempt = 1

-----------------------------------------------------------------------------
\* ====================== properties of the PTY relay =======================

ActiveWriters == {t \in Writers : wr[t].on}

\* the bytes the Write calls in progress have handed to the master so far
Partial ==
    IF ActiveWriters = {} THEN << >>
    ELSE LET t == CHOOSE u \in ActiveWriters : TRUE
         IN  SubSeq(wr[t].buf, 1, wr[t].n)

\* C7: at most one task is executing a write to the PTY master, the task that
\* does holds Relay.mu, and the bytes the master has received are the finished
\* writes one after the other followed by what the write in progress has
\* written so far: no byte of one write lies inside another.
C7_WritesSerialised ==
    /\ Cardinality(ActiveWriters) <= 1
    /\ \A t \in ActiveWriters : mu = t
    /\ masterStream = Concat(writeLog) \o Partial

\* Inject is half way through a two-byte write while the stdin copier, with
\* data of its own to write, waits for the mutex
C7_Witness ==
    /\ wr["ws"].on /\ Len(wr["ws"].buf) = 2 /\ wr["ws"].n = 1
    /\ pcStdin = "lock" /\ Len(Segment(data)) = 2
    /\ mu = "ws"

\* the WebSocket loop is between two Inject calls of one message
WsMid == pcWs = "inject" /\ nInj >= 1

StdinHasWritten == \E i \in 1..Len(stdinLog) : stdinLog[i][1] = "write"

\* the bytes of the last read the copier has still to look at
StdinRest ==
    IF pcStdin \in {"suspend", "stop", "resume_get", "resume_set"}
    THEN SubSeq(data, IndexByte(data, CtrlZ) + 2, Len(data))
    ELSE IF pcStdin \in {"scan", "lock"} THEN data
    ELSE << >>

\* the copier has written some bytes of its last read and has more to write
StdinMid == StdinHasWritten /\ \E i \in 1..Len(StdinRest) : StdinRest[i] # CtrlZ

\* C29: no byte of local input reaches the master between the Inject calls of
\* one inbound message (its text and the CR that submits it), and no injected
\* byte reaches it between the bytes of one local read.
C29_MessagesNotInterleaved ==
    /\ ~(WsMid /\ wr["stdin"].on /\ wr["stdin"].n > 0)
    /\ ~(StdinMid /\ wr["ws"].on /\ wr["ws"].n > 0)

\* the bytes of the read that an entry of the copier's log accounts for
BytesOf(e) ==
    IF e[1] = "write" THEN e[2] ELSE IF e[1] = "stop" THEN <<CtrlZ>> ELSE << >>

RECURSIVE Consumed(_)
Consumed(log) ==
    IF log = << >> THEN << >> ELSE BytesOf(Head(log)) \o Consumed(Tail(log))

\* the order of the copier's calls for one read: the bytes before a Ctrl-Z
\* are written, restoreTermios puts back the saved (non-raw) termios, the
\* stop signal is sent, setRaw and then syncWinsize are called, and the bytes
\* after the Ctrl-Z are written; no write to the master holds the Ctrl-Z.
SuspendCallOrder ==
    /\ stdinLog # << >> =>
          /\ stdinLog[1][1] = "read"
          /\ LET done == Consumed(stdinLog)
             IN  /\ Len(done) <= Len(stdinLog[1][2])
                 /\ done = SubSeq(stdinLog[1][2], 1, Len(done))
    /\ \A i \in 2..Len(stdinLog) :
          LET e == stdinLog[i]
              b == stdinLog[i - 1]
          IN  /\ e[1] = "write" =>
                    /\ e[2] # << >> /\ CtrlZ \notin Range(e[2])
                    /\ b[1] \in {"read", "syncWinsize"}
              /\ e[1] = "restore" =>
                    /\ b[1] \in {"read", "write", "syncWinsize"}
                    /\ e[2] # "raw"
              /\ e[1] = "stop" => b[1] = "restore" /\ e[2] = b[2]
              /\ e[1] = "setRaw" => b[1] = "stop"
              /\ e[1] = "syncWinsize" => b[1] = "setRaw"

\* C28: of the bytes of one read, those before a Ctrl-Z are written to the
\* master, then restoreTermios puts back the saved (non-raw) termios and the
\* host stops itself; after the resume setRaw and then syncWinsize are called
\* before any byte that follows the Ctrl-Z is written; no write to the master
\* holds the Ctrl-Z. The host is stopped with the terminal as it was at entry
\* and with the copier at the statement after the kill, where it goes on at
\* the resume.
C28_SuspendOrder ==
    /\ SuspendCallOrder
    /\ host = "stopped" => (termios = entryTermios /\ pcStdin = "resume_get")

\* a read held bytes on both sides of a Ctrl-Z; the copier has written the
\* first, sent the stop signal, called setRaw and syncWinsize and called Write
\* for the rest
C28_Witness ==
    /\ Len(stdinLog) = 7
    /\ stdinLog[1] = <<"read", <<"a", CtrlZ, "b">> >>
    /\ stdinLog[2] = <<"write", <<"a">> >>
    /\ stdinLog[3][1] = "restore" /\ stdinLog[4][1] = "stop"
    /\ stdinLog[5] = <<"setRaw", "raw">> /\ stdinLog[6][1] = "syncWinsize"
    /\ stdinLog[7] = <<"write", <<"b">> >>

\* the host is stopped with the terminal in raw mode again: setRaw ran between
\* the kill and the stop
StoppedRaw ==
    /\ host = "stopped" /\ termios = "raw"
    /\ Len(stdinLog) >= 2 /\ stdinLog[Len(stdinLog) - 1] = <<"setRaw", "raw">>

\* Run has returned and the process has not ended yet
RunReturned == host \in {"running", "stopping", "stopped"} /\ pcMain = "returned"

\* C35: when Run has returned after having started the output reader, the
\* output reader has finished: it holds no bytes it has read and not yet
\* written to stdout and handed to Send, and it will read no more.
C35_RunReturnsAfterReader ==
    (RunReturned /\ pcOut # "off") => pcOut = "ended"

\* C40: once Run has returned, no step of the host changes the terminal's
\* termios or the termios saved in r.origTermios.
C40_TermiosLeftAloneAfterRun ==
    [][(RunReturned /\ host' \in {"running", "stopping", "stopped"})
            => (termios' = termios /\ origTermios' = origTermios)]_vars

HostEnded == host \in {"exited", "killed", "crashed"}

\* C8: whenever the host process has ended after the outer terminal was put
\* into raw mode, the terminal's termios equals its value at process entry.
C8_TermiosRestoredAtEnd ==
    HostEnded /\ rawApplied => termios = entryTermios

-----------------------------------------------------------------------------
\* ================== properties of the text retry queue ===================

\* C11: Send leaves the text retry queue alone and stores nothing: no chunk
\* of binary output is ever in the retry queue, in a drain's batch or among
\* the frames a drain wrote, and a chunk whose Send call found no connection
\* or mode R is never written to any connection.
C11_SendNeverQueues ==
    /\ \A e \in Range(textQueue) \cup Range(batch) \cup Range(drained) : e > 0
    /\ binDropped \cap binWritten = {}

\* a chunk was dropped for want of a connection, and a later connection has
\* drained the text frames that were queued at that time
C11_Witness ==
    /\ -1 \in binDropped /\ wsMode # "r"
    /\ conn # 0 /\ drainDone /\ drained # << >>
    /\ pcBin = "idle"

\* C9: whenever the retry queue has been cut back to its capacity, every frame
\* discarded is older than every frame kept, and the frame produced last is
\* not among the discarded.
C9_CutDropsOldest ==
    /\ \A d \in lastCut.discarded : \A k \in Range(lastCut.kept) : d < k
    /\ lastCut.newest \notin lastCut.discarded

\* C10 as stated: when the drain on a connection has finished without a write
\* error, what it wrote is the last textQueueSize of the frames passed to
\* SendText while there was no connection, in the order they were passed.
C10_DrainWritesLastOfPassed ==
    drainDone => drained = LastN(passed, textQueueSize)

\* C10: in mode RW or W, when no SendText call was in progress at the moment
\* the connection was lost, every SendText call since then began and returned
\* while there was no connection, and the drain on the next connection has
\* finished without a write error, what it wrote is the last textQueueSize of
\* (the frames in the queue when the connection was lost, followed by the
\* frames passed to SendText while there was no connection), in that order.
C10_DrainWritesLastOfQueued ==
    drainDone /\ clean /\ wsMode # "r" =>
        drained = LastN(q0 \o passed, textQueueSize)

\* more frames than the queue holds were passed while disconnected, into an
\* empty queue, and the drain has written the last textQueueSize of them
C10_Witness ==
    /\ drainDone /\ clean /\ wsMode # "r"
    /\ q0 = << >>
    /\ Len(passed) > textQueueSize
    /\ drained = LastN(passed, textQueueSize)
    /\ Len(drained) = textQueueSize

\* a step in which a write of the drain fails: the loop index stays
DrainFails == pcRun = "drain" /\ pcRun' = "read" /\ drainIdx' = drainIdx

\* C30: when a write of the drain fails, the frame whose write failed and the
\* frames after it in the batch are the head of the retry queue, in their
\* order; what follows them are frames enqueued during the drain, in their
\* order; no frame the drain has written is in the queue.
C30_UnsentRequeuedAtHead ==
    [][DrainFails =>
        LET unsent == SubSeq(batch, drainIdx, Len(batch))
            n      == Len(unsent)
            m      == Len(textQueue')
        IN  /\ m >= n
            /\ SubSeq(textQueue', 1, n) = unsent
            /\ m - n <= Len(textQueue)
            /\ SubSeq(textQueue', n + 1, m) = SubSeq(textQueue, 1, m - n)
            /\ \A i \in 1..(drainIdx - 1) : batch[i] \notin Range(textQueue')]_vars

\* a drain failed after it had written a frame, while a frame enqueued during
\* it was waiting: the unsent rest is in front of that frame
C30_Witness ==
    /\ pcRun = "read" /\ ~drainDone
    /\ drainIdx > 1 /\ drainIdx <= Len(batch)
    /\ Len(textQueue) > Len(batch) - drainIdx + 1
    /\ SubSeq(textQueue, 1, Len(batch) - drainIdx + 1) = SubSeq(batch, drainIdx, Len(batch))
    /\ \A i \in 1..(drainIdx - 1) : batch[i] \notin Range(textQueue)

\* C31: on a connection, no frame written by SendText itself (the call
\* found the new connection) precedes on the wire a frame that the drain
\* writes and that was passed to SendText during the preceding disconnect.
C31_QueuedFramesFirst ==
    \A i \in 1..Len(wire) : \A j \in 1..Len(wire) :
        (i < j /\ wire[i].by = "SendText") => ~(wire[j].by = "drain" /\ wire[j].gap)

\* the frames the client holds: the retry queue, and what a drain in
\* progress has taken and not yet written
Held ==
    Range(textQueue)
        \cup (IF pcRun = "drain" THEN Range(SubSeq(batch, drainIdx, Len(batch))) ELSE {})

\* this step writes frame f to the connection without error
Writes(f, by) ==
    /\ Len(wire') = Len(wire) + 1
    /\ Last(wire').f = f /\ Last(wire').by = by

\* C39: in mode RW or W, the step in which SendText returns has written the
\* frame to the connection or leaves it in the retry queue; a held frame
\* leaves the client only in a step that writes it from the drain, or in a
\* step that cuts the queue to its capacity.
C39_NoFrameLostSilently ==
    [][wsMode # "r" =>
        /\ (pcSend = "loaded" /\ pcSend' = "idle") =>
              Writes(nFrames, "SendText") \/ nFrames \in Range(textQueue')
        /\ \A f \in Held \ Held' :
              \/ Writes(f, "drain")
              \/ /\ Len(textQueue') = textQueueSize
                 /\ Cardinality(Held \cup Range(textQueue')) > textQueueSize]_vars

\* two frames that were held are on the wire of the second connection, its
\* drain has finished, nothing is held and SendText has returned
C39_Witness ==
    /\ wsMode # "r" /\ conn = 2 /\ drainDone
    /\ Len(drained) = 2 /\ Len(wire) >= 2
    /\ Held = {} /\ pcSend = "idle"

-----------------------------------------------------------------------------
\* ================ properties of inbound message handling ==================

InjectDone == fnIn.fn = "inject" /\ fnOut # << >>

\* the payload's last byte is a newline or a carriage return
EndsInNewline(p) == Len(p) > 0 /\ p[Len(p)] \in {LF, CR}

\* t is payload p with each LF rewritten to CR and the trailing CRs removed
IsTextOf(t, p) ==
    /\ Len(t) <= Len(p)
    /\ \A i \in 1..Len(t) : t[i] = (IF p[i] = LF THEN CR ELSE p[i])
    /\ Len(t) > 0 => t[Len(t)] # CR
    /\ \A i \in (Len(t) + 1)..Len(p) : p[i] \in {LF, CR}

\* C18: a non-empty payload received in mode RW or R leads to the injection of
\* its text (LF rewritten to CR, trailing CRs removed; skipped when empty) and
\* then of exactly one lone CR as a separate later write, whether or not the
\* payload ended in a newline and however many it had; in mode W and for an
\* empty message nothing is injected.
C18_CRAppendedAutomatically ==
    InjectDone =>
        LET calls == fnOut[1]
            p     == fnIn.payload
        IN  IF Len(p) > 0 /\ fnIn.mode \in {"rw", "r"}
            THEN /\ Len(calls) \in {1, 2}
                 /\ Last(calls) = <<CR>>
                 /\ Count(calls, <<CR>>) = 1
                 /\ Len(calls) = 2 => Len(calls[1]) > 0 /\ IsTextOf(calls[1], p)
                 /\ Len(calls) = 1 => IsTextOf(<< >>, p)
            ELSE calls = << >>

\* a payload with two trailing newlines was received in mode R: its text, then
\* one CR
C18_Witness ==
    /\ InjectDone
    /\ fnIn.mode = "r" /\ fnIn.payload = <<"x", LF, LF>>
    /\ fnOut[1] = << <<"x">>, <<CR>> >>

\* C19 as stated: the lone CR is injected only when the rewritten payload
\* ended in CR; a payload that does not end in a newline or carriage return
\* is injected as one write and no CR is added.
C19_CROnlyWhenStripped ==
    (InjectDone /\ Len(fnIn.payload) > 0 /\ fnIn.mode # "w") =>
        LET calls == fnOut[1]
            p     == fnIn.payload
        IN  IF EndsInNewline(p)
            THEN Last(calls) = <<CR>>
            ELSE calls = << ReplaceNL(p) >>

\* C19 amended: the delayed write of CR happens for every non-empty payload in
\* mode RW or R; a payload that does not end in a newline or carriage return
\* is injected as two writes, the rewritten payload and then CR, exactly as
\* the same payload followed by any number of newlines is.
C19_CRWhetherOrNotStripped ==
    (InjectDone /\ Len(fnIn.payload) > 0 /\ fnIn.mode # "w") =>
        LET calls == fnOut[1]
            p     == fnIn.payload
        IN  /\ ~EndsInNewline(p) => calls = << ReplaceNL(p), <<CR>> >>
            /\ calls = Injected(fnIn.mode, p \o <<LF>>)
            /\ calls = Injected(fnIn.mode, p \o <<CR, LF>>)

\* a payload without a trailing newline was received
C19_Witness ==
    /\ InjectDone
    /\ fnIn.mode = "rw" /\ fnIn.payload = <<"x", LF, "x">>
    /\ fnOut[1] = << <<"x", CR, "x">>, <<CR>> >>

-----------------------------------------------------------------------------
\* ====================== properties of runConnect ==========================

\* position of the first e in the log (0 when absent)
At(e) == FirstIndex(cLog, e)

ShutdownComplete ==
    /\ Did("tailer_signalled") /\ Did("tailer_drained") /\ Did("ws_closed")
    /\ Did("termios_restored") /\ Did("master_closed")

\* the ways tailBridge returns: after its drain pass, on a read error, or
\* signalled before it had opened the bridge path
TailerEnds == {"tailer_drained", "tailer_read_error", "tailer_returned"}

\* C23 as stated: at shutdown the tailer is signalled, its drain pass
\* finishes, the WebSocket client is closed, the termios is restored, the
\* master is closed, in this order.
C23_OrderAsStated ==
    ShutdownComplete =>
        /\ At("tailer_signalled") < At("tailer_drained")
        /\ At("tailer_drained") < At("ws_closed")
        /\ At("ws_closed") < At("termios_restored")
        /\ At("termios_restored") < At("master_closed")

\* C23 amended: the termios is restored and the master is closed when
\* Relay.Run returns, before the tailer is signalled; then the tailer is
\* signalled and the WebSocket client is closed last, only after tailBridge
\* has returned. tailBridge returns in one way only: after a drain pass, which
\* follows the signal; signalled before it had opened the bridge path; or on
\* a read error, which may come before the signal. After a child that ran,
\* the master is closed before the termios is restored; when Run fails before
\* the child runs, after it.
C23_ShutdownOrder ==
    /\ Did("tailer_signalled") =>
          /\ Did("termios_restored") /\ Did("master_closed")
          /\ At("termios_restored") < At("tailer_signalled")
          /\ At("master_closed") < At("tailer_signalled")
          /\ Did("child_started") <=> At("master_closed") < At("termios_restored")
    /\ \A e \in {"tailer_drained", "tailer_returned"} :
          Did(e) => At("tailer_signalled") < At(e)
    /\ Cardinality(Range(cLog) \cap TailerEnds) <= 1
    /\ Did("ws_closed") =>
          /\ At("tailer_signalled") < At("ws_closed")
          /\ \E e \in TailerEnds : Did(e) /\ At(e) < At("ws_closed")

\* the child ran and ended, and the host has gone through its whole shutdown
C23_Witness ==
    /\ cPC = "exited" /\ cExit = 0
    /\ Did("child_started") /\ ShutdownComplete

EnrollFailed ==
    \E r \in ConnEnrollResults \ {"approved"} : Did("enroll_" \o r)

\* C26: when enrollment is not approved, connect has exited with status 1 and
\* has not installed hooks, created the bridge file, opened a PTY, started the
\* child or dialled the WebSocket.
C26_EnrollFailureStopsConnect ==
    EnrollFailed =>
        /\ cPC = "exited" /\ cExit = 1
        /\ ~cBridge /\ cTail = "off"
        /\ Range(cLog) \cap {"hooks_installed", "hooks_failed", "bridge_created",
                             "bridge_failed", "pty_opened", "child_started",
                             "ws_dialled"} = {}

\* the server answered approved:false
C26_Witness ==
    /\ cLog = <<"enroll_not_approved">>
    /\ cPC = "exited" /\ cExit = 1

\* C27: the bridge file exists when the child is started, and does not exist
\* once the host has exited by itself, with status 0 or 1.
C27_BridgeLifetime ==
    /\ Did("child_started") =>
          Did("bridge_created") /\ At("bridge_created") < At("child_started")
    /\ (cPC = "exited" /\ cExit \in {0, 1}) => ~cBridge

-----------------------------------------------------------------------------
\* =============== properties of the streamer in HTTP mode ==================

Fatal4xx(o) == o.err = "none" /\ o.code \in (400..499) \ {429}

\* C25: the streamer has stopped on a POST exactly when its last POST came
\* back with a 4xx status other than 429; no POST follows such a POST, and
\* after any other outcome (network error, timeout, 5xx, 429, success) the
\* streamer is still reading, so that the following lines are POSTed, each
\* line once and in order.
C25_StopsOn4xxOnly ==
    /\ sPC = "fatal" <=> (sPosts # << >> /\ Fatal4xx(Last(sPosts).outcome))
    /\ \A i \in 1..Len(sPosts) : i < Len(sPosts) => ~Fatal4xx(sPosts[i].outcome)
    /\ \A i \in 1..Len(sPosts) : \A j \in 1..Len(sPosts) :
          i < j => sPosts[i].line < sPosts[j].line
    /\ (sPosts # << >> /\ ~Fatal4xx(Last(sPosts).outcome))
          => sPC \in {"reading", "read_error"}

\* a timeout and then a 429 did not stop the streamer: the third line was
\* POSTed, and its 404 did
C25_Witness ==
    /\ Len(sPosts) = 3
    /\ sPosts[1].outcome = [err |-> "timeout", code |-> 0]
    /\ sPosts[2].outcome = [err |-> "none", code |-> 429]
    /\ sPosts[3].outcome = [err |-> "none", code |-> 404]
    /\ sPC = "fatal"

-----------------------------------------------------------------------------
\* =================== properties of the bridge tailer ======================

\* the newline-terminated lines of f, each without its trailing CR and LF
RECURSIVE LinesOf(_)
LinesOf(f) ==
    IF LF \notin Range(f) THEN << >>
    ELSE << trimNewline(SubSeq(f, 1, FirstIndex(f, LF))) >>
         \o LinesOf(SubSeq(f, FirstIndex(f, LF) + 1, Len(f)))

\* the bytes the tailer's reader has consumed
BridgeRead == SubSeq(brFile, 1, brOff)

\* C22: the frames passed to SendText are, in file order, one frame
\* {"type":"transcript","data":L} for each newline-terminated line L among
\* the bytes read so far; bytes after the last newline have produced no frame.
C22_FramesAreTheLines ==
    brFrames = [i \in 1..Len(LinesOf(BridgeRead)) |->
                   TranscriptFrame(LinesOf(BridgeRead)[i])]

\* the step in which the drain pass reads to the end of the file and returns
DrainEnds == brPC = "drain" /\ brPC' = "finished"

\* a turn of the drain pass that reads a complete line
DrainLine == brPC = "drain" /\ brPC' = "drain" /\ brOff' > brOff

\* C32: when the drain pass ends, its final frame carries the whole
\* unterminated tail of the file, the buffered partial followed by the
\* unterminated bytes read last (no frame when there is no such tail); a
\* line completed during the drain is sent as one frame with the buffered
\* partial in front.
C32_FinalFrameIsWholeTail ==
    [][/\ DrainEnds =>
            brFrames' = IF brPartial \o BridgeAvail = << >>
                        THEN brFrames
                        ELSE Append(brFrames, TranscriptFrame(brPartial \o BridgeAvail))
       /\ DrainLine =>
            brFrames' = IF trimNewline(brPartial \o BridgeLine) = << >>
                        THEN brFrames
                        ELSE Append(brFrames,
                                    TranscriptFrame(trimNewline(brPartial \o BridgeLine)))]_vars

-----------------------------------------------------------------------------
\* ===================== properties of enrollment ===========================

\* C21: as long as every enrollment was approved, the hook invocations of one
\* relay id, started with no marker, have made at most one POST to
\* /session/enroll plus one for each invocation that took the 401 retry path;
\* when they have all ended they have made at least one.
C21_OneEnrollPost ==
    ~eRejected =>
        /\ ePosts <= 1 + Cardinality(eRetried)
        /\ (\A h \in HookIds : ePC[h] = "done") => ePosts >= 1

-----------------------------------------------------------------------------
\* ================ properties of the transcript streamer ===================

\* the hook invocations that have reached maybeStartStreamer
Entered == {h \in HookIds : hk[h] # "idle"}

\* every invocation so far came with the same relay id
SameRelay == \A g, h \in Entered : hkRelay[g] = hkRelay[h]

\* C20: while the hook invocations that reached maybeStartStreamer for the
\* session all carry the same relay id, at most one streamer process is alive.
C20_AtMostOneStreamer == SameRelay => Cardinality(Live) <= 1

-----------------------------------------------------------------------------
\* ======================= properties of backoff ============================

\* C15: for every attempt number n >= 0 the delay d of backoff(n) satisfies
\* 0.75 b <= d <= 1.25 b with b = min(2^n, 30) seconds, and d is positive.
C15_BackoffWithinJitter ==
    fnIn.fn = "backoff" /\ fnOut # << >> =>
        /\ 4 * fnOut[1] >= 3 * NominalMs(fnIn.attempt)
        /\ 4 * fnOut[1] <= 5 * NominalMs(fnIn.attempt)
        /\ fnOut[1] > 0

\* backoff has been called with an attempt number whose plain shift would
\* overflow, and with the lowest jitter
C15_Witness ==
    /\ fnIn.fn = "backoff" /\ fnOut # << >>
    /\ fnIn.attempt >= 64 /\ fnIn.rand = 0
    /\ fnOut[1] = 22500

-----------------------------------------------------------------------------
\* ================== properties of the hook dispatcher =====================

HookExited == cmd = "hook" /\ hookPC = "exited"

DecisionOf(envelope) == envelope.hookSpecificOutput.decision

IsEnvelope(v) ==
    /\ DOMAIN v = {"hookSpecificOutput"}
    /\ v.hookSpecificOutput.hookEventName = "PermissionRequest"
    /\ DecisionOf(v).behavior \in {"allow", "deny"}

\* exactly one envelope was written, and its behavior is b
EmittedOne(b) ==
    /\ Len(stdout) = 1
    /\ IsEnvelope(stdout[1])
    /\ DecisionOf(stdout[1]).behavior = b

HasInterrupt(d) == "interrupt" \in DOMAIN d /\ d.interrupt = TRUE

\* the stdin decoded and the event (after defaulting) is PermissionRequest
IsPermissionEvent == stdin.kind = "object" /\ EventOf(stdin) = "PermissionRequest"

\* a response that grants: status below 400, JSON body, no error, behavior "allow"
Grants(r) ==
    /\ ~r.err /\ r.status < 400 /\ r.decodes
    /\ r.body.error = "" /\ r.body.behavior = "allow"

\* C1: every hook invocation writes exactly one decision envelope to
\* standard output and exits with status 0 (stated as claimed; the JSON
\* value null on stdin makes the process panic with status 2 and no output).
C1_OneEnvelopeExitZero ==
    HookExited =>
        /\ exitCode = 0
        /\ Len(stdout) = 1
        /\ IsEnvelope(stdout[1])

\* C2: "allow" is emitted only if the last POST /request returned a status
\* below 400 with a JSON body whose error is empty and whose behavior is
\* "allow"; missing configuration, a parse failure, a transport failure, a
\* status >= 400, a rejected re-enrollment, a non-empty error and any other
\* behavior value all end in exactly one "deny" envelope.
C2_AllowOnlyWhenGranted ==
    HookExited =>
        LET granted == posts # << >> /\ Grants(Last(posts)) IN
        /\ \A i \in 1..Len(stdout) :
              DecisionOf(stdout[i]).behavior = "allow" => granted
        /\ (deviceID = "" \/ project = "") => EmittedOne("deny")
        /\ stdin.kind \in {"unreadable", "malformed"} => EmittedOne("deny")
        /\ (IsPermissionEvent /\ ~granted) => EmittedOne("deny")
        /\ (IsPermissionEvent /\ granted) => EmittedOne("allow")

C2_Witness ==
    /\ HookExited /\ Len(posts) = 2
    /\ posts[1].status = 401 /\ Grants(posts[2])
    /\ EmittedOne("allow")

\* C3: for a successful /request response the decision is: non-empty error ->
\* deny with the error as message; else "allow" with non-empty updated_input
\* -> allow with that updatedInput; else "allow" -> plain allow; else deny
\* with the server message ("Permission denied" when empty), with
\* interrupt:true exactly when the server sent interrupt:true.
C3_DecisionFromBody ==
    (HookExited /\ posts # << >> /\ ~Last(posts).err
        /\ Last(posts).status < 400 /\ Last(posts).decodes) =>
        LET b == Last(posts).body
            d == DecisionOf(stdout[1])
        IN  /\ Len(stdout) = 1
            /\ IF b.error # "" THEN
                    d = [behavior |-> "deny", message |-> b.error]
               ELSE IF b.behavior = "allow" /\ b.updated_input # {} THEN
                    d = [behavior |-> "allow", updatedInput |-> b.updated_input]
               ELSE IF b.behavior = "allow" THEN
                    d = [behavior |-> "allow"]
               ELSE /\ d.behavior = "deny"
                    /\ d.message = (IF b.message = "" THEN "Permission denied" ELSE b.message)
                    /\ HasInterrupt(d) <=> b.interrupt
                    /\ DOMAIN d \subseteq {"behavior", "message", "interrupt"}

C3_Witness ==
    /\ HookExited /\ posts # << >> /\ ~Last(posts).err
    /\ Last(posts).status < 400 /\ Last(posts).decodes
    /\ Last(posts).body.error = "" /\ Last(posts).body.behavior = "deny"
    /\ Last(posts).body.interrupt /\ Last(posts).body.message = ""
    /\ stdout = << Envelope([behavior |-> "deny", message |-> "Permission denied",
                             interrupt |-> TRUE]) >>

\* what the process did after its first POST /request
AfterFirstRequest ==
    SubSeq(trace, FirstIndex(trace, "POST /request") + 1, Len(trace))

FirstWas401 == IsPermissionEvent /\ posts # << >> /\ ~posts[1].err /\ posts[1].status = 401

\* C4 as claimed: whenever the first POST /request returns 401 the hook
\* removes the marker, POSTs /session/enroll once and re-POSTs /request once,
\* in that order.
C4_RetryAfterEvery401 ==
    (HookExited /\ FirstWas401) =>
        AfterFirstRequest = << "rm marker", "POST /session/enroll", "POST /request" >>

\* C4 amended: when the first POST /request returns 401 and the relay id is
\* not empty, the hook removes the marker and then either POSTs
\* /session/enroll once and, that enrollment approved, re-POSTs /request
\* exactly once, or, the enrollment rejected, denies without a retry, or,
\* another hook process having written the marker again in between, re-POSTs
\* /request once without enrolling; with an empty relay id the 401 is denied
\* at once. At most 2 POSTs to /request are made in any execution, and a
\* status >= 400 on the retry is denied with no further retry.
C4_RetryOnceWhenReEnrolled ==
    HookExited =>
        /\ Count(trace, "POST /request") <= 2
        /\ Len(posts) <= 2
        /\ FirstWas401 =>
              IF relayID = "" THEN
                    /\ AfterFirstRequest = << >>
                    /\ EmittedOne("deny")
              ELSE  \/ /\ AfterFirstRequest =
                            << "rm marker", "POST /session/enroll", "POST /request" >>
                       /\ Len(posts) = 2
                       /\ Last(enrolled) = "approved"
                    \/ /\ AfterFirstRequest = << "rm marker", "POST /session/enroll" >>
                       /\ Len(posts) = 1
                       /\ Last(enrolled) = "rejected"
                       /\ stdout = << Envelope([behavior |-> "deny",
                                                message |-> MsgEnrollRejected]) >>
                    \/ /\ AfterFirstRequest = << "rm marker", "POST /request" >>
                       /\ Len(posts) = 2
                       /\ otherWrites > 0
        /\ (Len(posts) = 2 /\ ~posts[2].err /\ posts[2].status >= 400) =>
              /\ EmittedOne("deny")
              /\ Last(trace) = "POST /request"

C4_Witness ==
    /\ HookExited /\ FirstWas401 /\ relayID # ""
    /\ Len(posts) = 2 /\ posts[2].status = 401
    /\ AfterFirstRequest = << "rm marker", "POST /session/enroll", "POST /request" >>
    /\ EmittedOne("deny")

\* C5: malformed stdin and a 5xx status each end in a deny envelope; a
\* transport failure, on the first POST /request or on the retry after a 401,
\* ends in a deny envelope with interrupt:true; the exit status is 0.
C5_FailuresDeny ==
    HookExited =>
        /\ stdin.kind = "malformed" =>
              (EmittedOne("deny") /\ exitCode = 0)
        /\ (posts # << >> /\ ~Last(posts).err /\ Last(posts).status >= 500) =>
              (EmittedOne("deny") /\ exitCode = 0)
        /\ (posts # << >> /\ Last(posts).err) =>
              /\ EmittedOne("deny")
              /\ HasInterrupt(DecisionOf(stdout[1]))
              /\ exitCode = 0

C5_Witness ==
    /\ HookExited /\ Len(posts) = 2 /\ posts[1].status = 401 /\ posts[2].err
    /\ EmittedOne("deny") /\ HasInterrupt(DecisionOf(stdout[1])) /\ exitCode = 0

\* C6: connect and hook both take device_id and project from the first
\* non-empty of flag (connect only), environment and config file, and the
\* missing-value error occurs only when all sources of a value are empty
\* (stated as claimed; hook never reads project from the config file).
AllEmpty(a, b, c) == a = "" /\ b = "" /\ c = ""

C6_FirstNonEmptySource ==
    (cmd \in {"hook", "connect"} /\ hookPC # "start" /\ cfg.wsURL) =>
        LET noDevice  == AllEmpty(cfg.flagDevice, cfg.envDevice, cfg.cfgDevice)
            noProject == AllEmpty(cfg.flagProject, cfg.envProject, cfg.cfgProject)
            wantDevice  == IF cfg.flagDevice # "" THEN cfg.flagDevice
                           ELSE IF cfg.envDevice # "" THEN cfg.envDevice
                           ELSE cfg.cfgDevice
            wantProject == IF cfg.flagProject # "" THEN cfg.flagProject
                           ELSE IF cfg.envProject # "" THEN cfg.envProject
                           ELSE cfg.cfgProject
        IN  IF noDevice \/ noProject
            THEN /\ hookPC = "exited"
                 /\ IF cmd = "connect" THEN exitCode = 1 ELSE EmittedOne("deny")
            ELSE /\ deviceID = wantDevice
                 /\ project = wantProject

\* the responses of the POSTs to /request made after the last POST to
\* /session/enroll of this process (all of them when there was none)
RECURSIVE RequestsIn(_)
RequestsIn(t) ==
    IF t = << >> THEN 0
    ELSE (IF t[1] = "POST /request" THEN 1 ELSE 0) + RequestsIn(Tail(t))

LastEnrollAt ==
    IF \E i \in 1..Len(trace) : trace[i] = "POST /session/enroll"
    THEN CHOOSE i \in 1..Len(trace) :
            /\ trace[i] = "POST /session/enroll"
            /\ \A j \in (i + 1)..Len(trace) : trace[j] # "POST /session/enroll"
    ELSE 0

PostsSinceEnroll ==
    SubSeq(posts, RequestsIn(SubSeq(trace, 1, LastEnrollAt)) + 1, Len(posts))

Saw401SinceEnroll ==
    \E i \in 1..Len(PostsSinceEnroll) :
        ~PostsSinceEnroll[i].err /\ PostsSinceEnroll[i].status = 401

\* the mechanics of enrollSessionWithMarker and of the 401 path. The marker
\* changes only when another process writes or removes it, when this process
\* writes it after an approved enrollment, or when this process removes it on
\* the 401 of its first request; the process POSTs to /session/enroll only
\* after an os.Stat that found no marker, and comes to write the marker only
\* from an approved enrollment, a rejected one leaving the marker as it is;
\* the re-enrollment starts with the marker removed; one process enrolls at
\* most once, and once more after a 401.
MarkerMechanics ==
    [][/\ marker' # marker =>
            \/ otherWrites' = otherWrites + 1
            \/ ~marker /\ hookPC \in DOMAIN AfterMark /\ Last(enrolled) = "approved"
            \/ marker /\ hookPC = "pr_401" /\ Last(posts).status = 401
       /\ (hookPC' \in DOMAIN MarkOf /\ hookPC \notin DOMAIN MarkOf) => ~marker
       /\ enrolled' # enrolled => hookPC \in DOMAIN MarkOf
       /\ (hookPC' \in DOMAIN AfterMark /\ hookPC \notin DOMAIN AfterMark)
            => enrolled' = Append(enrolled, "approved")
       /\ enrolled' = Append(enrolled, "rejected") => marker' = marker
       /\ (hookPC' = "pr_reenroll" /\ hookPC # "pr_reenroll")
            => (~marker' /\ Last(posts').status = 401)
       /\ Len(enrolled') <= 1 + Count(trace', "rm marker")
       /\ Count(trace', "rm marker") <= 1]_vars

\* C37 as stated: when a hook process with a relay id has exited, no other
\* process has touched the marker meanwhile and the marker exists, then no
\* POST to /request has returned 401 since the last enrollment (or since the
\* start, when the marker was there from the start), and the last enrollment
\* of the process, if any, was approved.
C37_MarkerMeansEnrolled ==
    (HookExited /\ relayID # "" /\ marker /\ otherWrites = 0) =>
        /\ ~Saw401SinceEnroll
        /\ enrolled # << >> => Last(enrolled) = "approved"

\* the first POST to /request of this process returned 401
First401 == posts # << >> /\ ~posts[1].err /\ posts[1].status = 401

\* what the code keeps of it: the mechanics above, and when a hook process
\* with a relay id has exited, no other process has touched the marker
\* meanwhile and the marker exists, the last enrollment of the process, if
\* any, was approved, and if its first POST to /request returned 401 the
\* marker was removed and an enrollment approved after that. Only the 401 of
\* the first request is looked at (handlePermissionRequest lines 176-178).
C37_MarkerAfterFirst401 ==
    /\ MarkerMechanics
    /\ [](HookExited /\ relayID # "" /\ marker /\ otherWrites = 0 =>
            /\ enrolled # << >> => Last(enrolled) = "approved"
            /\ First401 =>
                  /\ Count(trace, "rm marker") = 1
                  /\ FirstIndex(trace, "rm marker") < LastEnrollAt)

\* the path on which the marker outlives a 401: the enrollment before the
\* request was rejected, the request returned 401, the marker was removed,
\* the second enrollment was approved and the marker written, the retry
\* returned 401 too, and the hook has exited with the marker in place, no
\* other process having touched it
C37_Witness ==
    /\ HookExited /\ relayID # "" /\ marker /\ otherWrites = 0
    /\ enrolled = <<"rejected", "approved">>
    /\ First401
    /\ Len(posts) = 2 /\ posts[2].status = 401

\* C36: the hook does not exit from handleNotification without its POST to
\* /request having been sent, nor from the end of handleSessionStart, after a
\* successful enrollment, without its POST to /activity having been sent.
C36_FireAndForgetIsSent ==
    [][/\ (hookPC = "notify" /\ hookPC' = "exited")
            => Count(trace', "POST /request") = Count(trace, "POST /request") + 1
       /\ (hookPC \in {"ss_saving", "ss_stream", "ss_streaming"} /\ hookPC' = "exited")
            => Count(trace', "POST /activity") = 1]_vars

-----------------------------------------------------------------------------
\* ===================== properties of seekToLastLines ======================

SeekDone == fnIn.fn = "seek" /\ fnOut # << >>

Min(a, b) == IF a <= b THEN a ELSE b

\* C34: seekToLastLines leaves the read position at the start of a line, and
\* the lines from there to the end of the file are min(L, n) of the L lines.
C34_SeekLeavesLastLines ==
    SeekDone =>
        LET f   == fnIn.file
            pos == fnOut[1]
        IN  /\ pos = 0 \/ f[pos] = LF
            /\ Count(SubSeq(f, pos + 1, Len(f)), LF) = Min(Count(f, LF), fnIn.n)

====
